---- MODULE Spec2Model ----
(***************************************************************************)
(* A model of configure.py, the VirtualBox build configuration script:     *)
(* the probe state machine (LibraryCheck / ToolCheck), the path resolver,  *)
(* the compile-and-run harness, the configuration store (EnvManager) and   *)
(* the run loop of main().                                                 *)
(*                                                                         *)
(* Representation.  A Python str that the code takes apart (a path, a      *)
(* command line value, a store value) is a sequence of tokens: a path is   *)
(* the sequence of its components, os.path.join is concatenation, '' is    *)
(* <<>>.  A str that is only stored and compared (a version, a probe name) *)
(* is a TLA+ string.  Python's None is None for the latter, and for a      *)
(* path-valued attribute it is NoPath: the code only ever tests such an    *)
(* attribute for truth, and '' and None are both false.                    *)
(*                                                                         *)
(* The host (file system, PATH, compiler and binary behaviour) is the      *)
(* environment: each operation draws what it reads of the host from a      *)
(* bounded set.                                                            *)
(***************************************************************************)
EXTENDS Integers, Sequences, FiniteSets, TLC

None == "None"
NoPath == <<>>
\* What g_oEnv[key] / EnvManager.get returns for a key that is not set.
EnvNone == <<"<None>">>

\* class BuildTarget
ANY == "any"
LINUX == "linux"
WINDOWS == "win"
DARWIN == "darwin"
SOLARIS == "solaris"
BSD == "bsd"

\* class BuildArch
X86 == "x86"
AMD64 == "amd64"
UNKNOWN == "unknown"

\* The directory holding the script.
g_sScriptPath == <<"/", "vbox">>

(***************************************************************************)
(* The hosts of the model.                                                 *)
(***************************************************************************)
\* A host: platform.system() mapped by g_enmHostTarget, platform.machine()
\* in lower case, whether the tree holds the extension pack, and os.environ
\* when the script starts.
Host(enmHostTarget, sMachine, fExtPack, asEnviron) ==
    [enmHostTarget |-> enmHostTarget, sMachine |-> sMachine, fExtPack |-> fExtPack,
     asEnviron |-> asEnviron]

\* os.environ of a developer who has kBuild and vcpkg set up.
DevEnviron ==
    << [k |-> "KBUILD_PATH", v |-> <<"kBuild">>],
       [k |-> "VCPKG_ROOT", v |-> <<"C:", "vcpkg">>] >>

\* The hosts: each platform on a machine type that has a GNU triple, with
\* and without the developer's environment, and a Linux host on a machine
\* type without one.
Hosts ==
    { Host(LINUX, "x86_64", TRUE, DevEnviron),
      Host(LINUX, "x86_64", FALSE, <<>>),
      Host(LINUX, "loongarch64", FALSE, DevEnviron),
      Host(DARWIN, "x86_64", FALSE, DevEnviron),
      Host(DARWIN, "loongarch64", TRUE, <<>>),
      Host(WINDOWS, "x86_64", FALSE, DevEnviron),
      Host(WINDOWS, "x86_64", TRUE, <<>>) }

\* g_enmHostArch: the host machine type mapped to a build architecture.
g_enmHostArch(sMachine) ==
    CASE sMachine \in {"i386", "i686"} -> X86
      [] sMachine \in {"x86_64", "amd64"} -> AMD64
      [] OTHER -> UNKNOWN

\* getLinuxGnuTypeFromPlatform: None for a machine type the map does not hold.
getLinuxGnuTypeFromPlatform(sMachine) ==
    CASE sMachine \in {"x86_64", "amd64"} -> "x86_64-linux-gnu"
      [] sMachine \in {"aarch64", "arm64"} -> "aarch64-linux-gnu"
      [] OTHER -> None

(***************************************************************************)
(* Python evaluates an expression once and binds the value to a name.      *)
(* Eval(v, Op) is Op applied to the value of v: the set constructor binds  *)
(* the value, so that Op does not evaluate the expression again each time  *)
(* it uses its argument.                                                   *)
(***************************************************************************)
Eval(v, Op(_)) == CHOOSE r \in {Op(x) : x \in {v}} : TRUE

(***************************************************************************)
(* Sequence helpers.                                                       *)
(***************************************************************************)
SeqToSet(s) == {s[i] : i \in DOMAIN s}

IsPrefix(p, s) == Len(p) <= Len(s) /\ SubSeq(s, 1, Len(p)) = p

IsSuffix(p, s) == Len(p) <= Len(s) /\ SubSeq(s, Len(s) - Len(p) + 1, Len(s)) = p

\* [x for x in s if x in keep]
RECURSIVE FilterFrom(_, _, _)
FilterFrom(s, keep, i) ==
    IF i > Len(s) THEN <<>>
    ELSE (IF s[i] \in keep THEN <<s[i]>> ELSE <<>>) \o FilterFrom(s, keep, i + 1)

FilterSeq(s, keep) == Eval(s, LAMBDA x : FilterFrom(x, keep, 1))

\* The sequences that list every element of the finite set S once.
Orderings(S) ==
    {s \in [1..Cardinality(S) -> S] : \A x \in S : \E i \in DOMAIN s : s[i] = x}

\* os.path.dirname of a path with at least one component.
dirname(p) == SubSeq(p, 1, Len(p) - 1)

\* os.path.basename
basename(p) == p[Len(p)]

(***************************************************************************)
(* EnvManager: the configuration store.  env is the dict self.env in       *)
(* insertion order, one record per key.                                    *)
(***************************************************************************)
EnvHas(env, sKey) == \E i \in DOMAIN env : env[i].k = sKey

EnvIndex(env, sKey) == CHOOSE i \in DOMAIN env : env[i].k = sKey

\* EnvManager.get / __getitem__
EnvManager_get(env, sKey) ==
    IF EnvHas(env, sKey) THEN env[EnvIndex(env, sKey)].v ELSE EnvNone

\* EnvManager.set: None skips setting altogether, empty values are allowed.
EnvManager_set(env, sKey, sVal) ==
    IF sVal = EnvNone THEN env
    ELSE IF EnvHas(env, sKey)
         THEN [env EXCEPT ![EnvIndex(env, sKey)] = [k |-> sKey, v |-> sVal]]
         ELSE Append(env, [k |-> sKey, v |-> sVal])

\* EnvManager.unset
EnvManager_unset(env, sKey) ==
    IF EnvHas(env, sKey)
    THEN SubSeq(env, 1, EnvIndex(env, sKey) - 1)
         \o SubSeq(env, EnvIndex(env, sKey) + 1, Len(env))
    ELSE env

\* EnvManager.append
EnvManager_append(env, sKey, sVal) ==
    EnvManager_set(env, sKey,
                   IF EnvHas(env, sKey) THEN EnvManager_get(env, sKey) \o sVal ELSE sVal)

\* EnvManager.prependPath; the delimiter is that of the host target (the
\* default argument is bound to g_enmHostTarget when the class is defined).
EnvManager_prependPath(env, sKey, sPath, enmBuildTarget) ==
    IF sPath = EnvNone \/ sPath = <<>> THEN env
    ELSE IF ~EnvHas(env, sKey) THEN EnvManager_set(env, sKey, sPath)
    ELSE EnvManager_set(env, sKey,
                        sPath \o <<IF enmBuildTarget = WINDOWS THEN ";" ELSE ":">>
                              \o EnvManager_get(env, sKey))

\* sKey.startswith(sPrefix), for the keys the stores of the model hold and
\* the prefixes the writers filter by.
startswith(sKey, sPrefix) ==
    CASE sPrefix = "VBOX_" ->
           sKey \in {"VBOX_GUI_USE_QGL", "VBOX_LIB_PYTHON", "VBOX_ONLY_ADDITIONS", "VBOX_OSE",
                     "VBOX_PATH_PYTHON_INC", "VBOX_WITH_3D_ACCELERATION",
                     "VBOX_WITH_AUDIO_RECORDING", "VBOX_WITH_DEBUGGER_GUI", "VBOX_WITH_DOCS",
                     "VBOX_WITH_DOCS_PACKING", "VBOX_WITH_EXTPACK_PUEL_BUILD",
                     "VBOX_WITH_EXTPACK_VNC", "VBOX_WITH_GSOAP", "VBOX_WITH_HARDENING",
                     "VBOX_WITH_HARDENing", "VBOX_WITH_HEADLESS", "VBOX_WITH_LIBOGG",
                     "VBOX_WITH_LIBVORBIS", "VBOX_WITH_LIBVPX", "VBOX_WITH_MAIN",
                     "VBOX_WITH_PYTHON", "VBOX_WITH_QTGUI", "VBOX_WITH_RECORDING",
                     "VBOX_WITH_SECURELABEL", "VBOX_WITH_VALIDATIONKIT", "VBOX_WITH_VBOXSDL",
                     "VBOX_WITH_VMSVGA3D", "VBOX_WITH_WEBSERVICES", "VBOX_WITH_WIN32_ADDITIONS"}
      [] sPrefix = "KBUILD_" ->
           sKey \in {"KBUILD_HOST", "KBUILD_HOST_ARCH", "KBUILD_PATH", "KBUILD_TARGET",
                     "KBUILD_TARGET_ARCH", "KBUILD_TARGET_CPU", "KBUILD_TYPE"}
      [] sPrefix = "PATH_TOOL_" -> FALSE

\* EnvManager.write_single: the line written for a key, its value with
\* every backslash replaced by a slash.
write_single(sKey, sVal) ==
    <<sKey, [i \in DOMAIN sVal |-> IF sVal[i] = "\\" THEN "/" ELSE sVal[i]]>>

\* A faulty EnvManager_write_all: a key with an empty value is written too.
RECURSIVE EnvManager_write_all_emptyToo(_, _, _)
EnvManager_write_all_emptyToo(env, asPrefixInclude, asPrefixExclude) ==
    IF env = <<>> THEN <<>>
    ELSE (IF asPrefixExclude # <<>>
             /\ \E i \in DOMAIN asPrefixExclude : startswith(Head(env).k, asPrefixExclude[i])
          THEN <<>>
          ELSE IF asPrefixInclude # <<>>
                  /\ ~\E i \in DOMAIN asPrefixInclude : startswith(Head(env).k, asPrefixInclude[i])
          THEN <<>>
          ELSE <<write_single(Head(env).k, Head(env).v)>>)
         \o EnvManager_write_all_emptyToo(Tail(env), asPrefixInclude, asPrefixExclude)

\* EnvManager.write_all: the lines written, in the order of the dict.
RECURSIVE EnvManager_write_all(_, _, _)
EnvManager_write_all(env, asPrefixInclude, asPrefixExclude) ==
    IF env = <<>> THEN <<>>
    ELSE (IF asPrefixExclude # <<>>
             /\ \E i \in DOMAIN asPrefixExclude : startswith(Head(env).k, asPrefixExclude[i])
          THEN <<>>
          ELSE IF asPrefixInclude # <<>>
                  /\ ~\E i \in DOMAIN asPrefixInclude : startswith(Head(env).k, asPrefixInclude[i])
          THEN <<>>
          ELSE IF Head(env).v # <<>> /\ Head(env).v # EnvNone
          THEN <<write_single(Head(env).k, Head(env).v)>>
          ELSE <<>>)
         \o EnvManager_write_all(Tail(env), asPrefixInclude, asPrefixExclude)

\* A run of set calls, each element of aSets being <<key, value>>, from the
\* i-th on.  (The set constructor binds each intermediate store once.)
RECURSIVE EnvSetFrom(_, _, _)
EnvSetFrom(env, aSets, i) ==
    IF i > Len(aSets) THEN env
    ELSE CHOOSE envLast \in {EnvSetFrom(e, aSets, i + 1) :
                                e \in {EnvManager_set(env, aSets[i][1], aSets[i][2])}} : TRUE

EnvSetAll(env, aSets) ==
    CHOOSE envLast \in {EnvSetFrom(e, a, 1) : e \in {env}, a \in {aSets}} : TRUE

\* A run of prependPath calls on one key, from the i-th path on.
RECURSIVE EnvPrependFrom(_, _, _, _, _)
EnvPrependFrom(env, sKey, asPaths, enmBuildTarget, i) ==
    IF i > Len(asPaths) THEN env
    ELSE CHOOSE envLast \in
             {EnvPrependFrom(e, sKey, asPaths, enmBuildTarget, i + 1) :
                 e \in {EnvManager_prependPath(env, sKey, asPaths[i], enmBuildTarget)}} : TRUE

\* A faulty EnvPrependAll: the paths go to a copy and the store is kept.
EnvPrependAll_onCopy(env, sKey, asPaths, enmBuildTarget) == env

EnvPrependAll(env, sKey, asPaths, enmBuildTarget) ==
    CHOOSE envLast \in {EnvPrependFrom(e, sKey, a, enmBuildTarget, 1) :
                           e \in {env}, a \in {asPaths}} : TRUE

\* Python truth of a store value read with g_oEnv[key].
Truthy(sVal) == sVal # EnvNone /\ sVal # <<>>

(***************************************************************************)
(* checkWhich.                                                             *)
(***************************************************************************)
\* What the host answers to one checkWhich call:
\*   absent     no such executable (custom path: no executable file there)
\*   version    found, and a version switch exits 0 printing a first line
\*   noversion  found, and no version switch exits 0
\*   emptyout   found, and a version switch exits 0 printing nothing
\*   suberror   found, and running it raises SubprocessError (a timeout)
WhichKinds == {"absent", "version", "noversion", "emptyout", "suberror"}

\* The version strings a command of the host may print.
HostVersions(sCmdName) ==
    IF sCmdName = "g++" THEN {"12.2.0", "13.1.0"} ELSE {"13.1.0"}

WhichOutcomes(sCmdName) ==
    {[kind |-> k, ver |-> None] : k \in WhichKinds \ {"version"}}
    \cup {[kind |-> "version", ver |-> v] : v \in HostVersions(sCmdName)}

\* The file name of a command: '.exe' is appended on a Windows host unless
\* the name ends with it already.
ExeName(sCmdName, enmHostTarget) ==
    IF enmHostTarget # WINDOWS THEN sCmdName
    ELSE CASE sCmdName = "gcc" -> "gcc.exe"
           [] sCmdName = "g++" -> "g++.exe"
           [] sCmdName = "java" -> "java.exe"
           [] OTHER -> sCmdName

\* Where shutil.which finds the commands of the host.
HostBinDir == <<"/", "usr", "bin">>

\* A faulty checkWhich: the command path is returned when running the
\* command raised SubprocessError.
checkWhich_pathOnError(sCmdName, sCustomPath, enmHostTarget, o) ==
    LET sDir == IF sCustomPath # NoPath THEN sCustomPath ELSE HostBinDir
        sCmdPath == sDir \o <<ExeName(sCmdName, enmHostTarget)>>
    IN  CASE o.kind = "absent" ->
               [sCmdPath |-> NoPath, sVer |-> None, cErrors |-> 1, fRaised |-> FALSE]
          [] o.kind = "version" ->
               [sCmdPath |-> sCmdPath, sVer |-> o.ver, cErrors |-> 0, fRaised |-> FALSE]
          [] o.kind = "noversion" ->
               [sCmdPath |-> sCmdPath, sVer |-> "<unknown>", cErrors |-> 0, fRaised |-> FALSE]
          [] o.kind = "emptyout" ->
               [sCmdPath |-> NoPath, sVer |-> None, cErrors |-> 0, fRaised |-> TRUE]
          [] o.kind = "suberror" ->
               [sCmdPath |-> sCmdPath, sVer |-> None, cErrors |-> 1, fRaised |-> FALSE]

\* checkWhich(sCmdName, sToolDesc, sCustomPath): the command path and version
\* (NoPath and None when not found), the errors counted, and whether the
\* call raised (the IndexError of splitlines()[0] on an empty output).
checkWhich(sCmdName, sCustomPath, enmHostTarget, o) ==
    LET sDir == IF sCustomPath # NoPath THEN sCustomPath ELSE HostBinDir
        sCmdPath == sDir \o <<ExeName(sCmdName, enmHostTarget)>>
    IN  CASE o.kind = "absent" ->
               [sCmdPath |-> NoPath, sVer |-> None, cErrors |-> 1, fRaised |-> FALSE]
          [] o.kind = "version" ->
               [sCmdPath |-> sCmdPath, sVer |-> o.ver, cErrors |-> 0, fRaised |-> FALSE]
          [] o.kind = "noversion" ->
               [sCmdPath |-> sCmdPath, sVer |-> "<unknown>", cErrors |-> 0, fRaised |-> FALSE]
          [] o.kind = "emptyout" ->
               [sCmdPath |-> NoPath, sVer |-> None, cErrors |-> 0, fRaised |-> TRUE]
          [] o.kind = "suberror" ->
               [sCmdPath |-> NoPath, sVer |-> None, cErrors |-> 1, fRaised |-> FALSE]


(***************************************************************************)
(* g_aoTools: the tool probes, in declaration order.                       *)
(***************************************************************************)
g_aoTools == <<"gcc", "visualcpp", "java", "xcode">>

\* ToolCheck.__init__ of each entry of g_aoTools: the command names, whether
\* a callback is given, and the targets (ANY when none are given).
ToolDef(sName) ==
    CASE sName = "gcc" ->
           [asCmd |-> <<"gcc">>, fnCallback |-> "checkCallback_gcc",
            aeTargets |-> {LINUX, SOLARIS}]
      [] sName = "visualcpp" ->
           [asCmd |-> <<>>, fnCallback |-> "checkCallback_VisualCPP",
            aeTargets |-> {WINDOWS}]
      [] sName = "java" ->
           [asCmd |-> <<"java">>, fnCallback |-> None, aeTargets |-> {ANY}]
      [] sName = "xcode" ->
           [asCmd |-> <<>>, fnCallback |-> "checkCallback_XCode",
            aeTargets |-> {DARWIN}]

Tools == SeqToSet(g_aoTools)

\* What the host answers to one tool probe: the checkWhich outcome of each
\* lookup it makes (at most two), and what a callback finds that is not a
\* command lookup (a Visual C++ installation, the CommandLineTools
\* directory: 'custom' at the custom path, 'default' at the fixed place).
ToolFinds == {"none", "default", "custom"}

ToolHost(sName) ==
    CASE sName = "gcc" ->
           {[aWhich |-> <<w1, w2>>, sFound |-> "none"] :
                w1 \in WhichOutcomes("gcc"), w2 \in WhichOutcomes("g++")}
      [] sName = "java" ->
           {[aWhich |-> <<w1>>, sFound |-> "none"] : w1 \in WhichOutcomes("java")}
      [] OTHER ->
           {[aWhich |-> <<>>, sFound |-> f] : f \in ToolFinds}

\* The result of a callback: its return value, the probe attributes and
\* the store as it leaves them, the errors it counted, whether it raised.
CallbackResult(fRet, sCmdPath, sVer, env, cErrors, fRaised) ==
    [fRet |-> fRet, sCmdPath |-> sCmdPath, sVer |-> sVer, env |-> env,
     cErrors |-> cErrors, fRaised |-> fRaised]

\* ToolCheck.checkCallback_gcc
checkCallback_gcc(self, env, enmHostTarget, sMachine, o) ==
    LET gcc == checkWhich("gcc", NoPath, enmHostTarget, o.aWhich[1])
        gxx == checkWhich("g++", NoPath, enmHostTarget, o.aWhich[2])
        sCC == basename(gcc.sCmdPath)
        sCXX == basename(gxx.sCmdPath)
        fAmd64 == g_enmHostArch(sMachine) = AMD64
        SetCC32(e) == EnvSetAll(e, << <<"CC32", <<sCC>>>>, <<"CXX32", <<sCXX>>>> >>)
        SetArchSwitch(e) ==
            IF fAmd64
            THEN EnvManager_append(EnvManager_append(e, "CC32", <<" -m32">>),
                                   "CXX32", <<" -m32">>)
            ELSE IF g_enmHostArch(sMachine) = X86
                    /\ EnvManager_get(e, "KBUILD_TARGET_ARCH") = <<AMD64>>
            THEN EnvManager_append(EnvManager_append(e, "CC32", <<" -m64">>),
                                   "CXX32", <<" -m64">>)
            ELSE IF EnvManager_get(e, "KBUILD_TARGET_ARCH") = <<AMD64>>
            THEN EnvManager_unset(EnvManager_unset(e, "CC32"), "CXX32")
            ELSE e
        SetCC(e) ==
            IF sCC # "gcc"
            THEN EnvSetAll(e, << <<"TOOL_GCC3_CC", <<sCC>>>>, <<"TOOL_GCC3_AS", <<sCC>>>>,
                                 <<"TOOL_GCC3_LD", <<sCC>>>>, <<"TOOL_GXX3_CC", <<sCC>>>>,
                                 <<"TOOL_GXX3_AS", <<sCC>>>> >>)
            ELSE e
        SetCXX(e) ==
            IF sCXX # "gxx"
            THEN EnvSetAll(e, << <<"TOOL_GCC3_CXX", <<sCXX>>>>, <<"TOOL_GXX3_CXX", <<sCXX>>>>,
                                 <<"TOOL_GXX3_LD", <<sCXX>>>> >>)
            ELSE e
        SetTool32(e) ==
            LET sCC32 == EnvManager_get(e, "CC32")
            IN  IF sCC32 # <<"gcc", " -m32">> /\ sCC32 # <<>>
                THEN EnvSetAll(e, << <<"TOOL_GCC3_CC", sCC32>>, <<"TOOL_GCC3_AS", sCC32>>,
                                     <<"TOOL_GCC3_LD", sCC32>>, <<"TOOL_GXX3_CC", sCC32>>,
                                     <<"TOOL_GXX3_AS", sCC32>> >>)
                ELSE e
        SetToolCXX32(e) ==
            LET sCXX32 == EnvManager_get(e, "CXX32")
            IN  IF sCXX32 # <<"g++", " -m32">> /\ sCXX32 # <<>>
                THEN EnvSetAll(e, << <<"TOOL_GCC32_CXX", sCXX32>>, <<"TOOL_GXX32_CXX", sCXX32>>,
                                     <<"TOOL_GXX32_LD", sCXX32>> >>)
                ELSE e
        SetBs3(e) ==
            LET sCC64 == EnvManager_get(e, "CC64")
                sCXX64 == EnvManager_get(e, "CXX64")
            IN  EnvSetAll(e,
                    << <<"TOOL_Bs3Gcc64Elf64_CC", IF Truthy(sCC64) THEN sCC64 ELSE <<sCC>>>>,
                       <<"TOOL_Bs3Gcc64Elf64_CXX", IF Truthy(sCXX64) THEN sCXX64 ELSE <<sCXX>>>> >>)
        SetSolaris(e) ==
            IF EnvManager_get(e, "KBUILD_TARGET") = <<SOLARIS>>
               /\ EnvManager_get(e, "KBUILD_TARGET_ARCH") = <<AMD64>>
            THEN EnvSetAll(e,
                     << <<"CC", IF sCC = "gcc" THEN <<"gcc", " -m64">> ELSE EnvNone>>,
                        <<"CXX", IF sCC = "gxx" THEN <<"gxx", " -m64">> ELSE EnvNone>> >>)
            ELSE e
        SetCompilers(e) == EnvSetAll(e, << <<"config_c_compiler", <<"gcc">>>>,
                                           <<"config_cpp_compiler", <<"g++">>>> >>)
        env9 == Eval(Eval(Eval(Eval(Eval(Eval(Eval(Eval(Eval(env,
                    SetCC32), SetArchSwitch), SetCC), SetCXX), SetTool32), SetToolCXX32),
                    SetBs3), SetSolaris), SetCompilers)
    IN  IF gcc.fRaised
        THEN CallbackResult(FALSE, self.sCmdPath, self.sVer, env, gcc.cErrors, TRUE)
        ELSE IF gcc.sCmdPath = NoPath
        THEN CallbackResult(FALSE, self.sCmdPath, self.sVer, env, gcc.cErrors + 1, FALSE)
        ELSE IF gxx.fRaised
        THEN CallbackResult(FALSE, self.sCmdPath, self.sVer, env, gxx.cErrors, TRUE)
        ELSE IF gxx.sCmdPath = NoPath
        THEN CallbackResult(FALSE, self.sCmdPath, self.sVer, env, gxx.cErrors + 1, FALSE)
        ELSE IF gcc.sVer # gxx.sVer
        THEN CallbackResult(FALSE, self.sCmdPath, self.sVer, env, 1, FALSE)
        ELSE CallbackResult(TRUE, gcc.sCmdPath, gcc.sVer, env9, 0, FALSE)

\* The Visual C++ installation checkCallback_VisualCPP finds when there is one.
sVCPPVer == "16.11"
sVCPPPath == <<"C:", "Program Files (x86)", "Microsoft Visual Studio", "VC", "Tools", "MSVC">>

\* ToolCheck.checkCallback_VisualCPP: o.sFound says whether vswhere or the
\* registry name an installation.
checkCallback_VisualCPP(self, env, enmHostTarget, o) ==
    LET env1 == EnvSetAll(env, << <<"PATH_TOOL_16.11", sVCPPPath>>,
                                  <<"PATH_TOOL_16.11X86", sVCPPPath>>,
                                  <<"PATH_TOOL_16.11AMD64", sVCPPPath>> >>)
        env2 == EnvPrependAll(env1, "INCLUDE",
                    << <<"C:", "Program Files (x86)", "Microsoft Visual Studio", "include">>,
                       <<"c:", "Program Files (x86)", "Windows Kits", "10", "Include", "ucrt">>,
                       <<"c:", "Program Files (x86)", "Windows Kits", "10", "Include", "shared">> >>,
                    enmHostTarget)
        env3 == EnvPrependAll(env2, "LIB",
                    << <<"C:", "Program Files (x86)", "Microsoft Visual Studio", "lib", "x64">>,
                       <<"C:", "Program Files (x86)", "Windows Kits", "10", "Lib", "ucrt", "x64">>,
                       <<"C:", "Program Files (x86)", "Windows Kits", "10", "Lib", "um", "x64">> >>,
                    enmHostTarget)
        env4 == EnvManager_prependPath(env3, "PATH",
                    <<"c:", "Program Files (x86)", "Microsoft Visual Studio", "bin", "Hostx64", "x64">>,
                    enmHostTarget)
        env5 == EnvSetAll(env4, << <<"config_c_compiler", sVCPPPath>>,
                                   <<"config_cpp_compiler", sVCPPPath>> >>)
    IN  IF o.sFound = "none"
        THEN CallbackResult(FALSE, self.sCmdPath, self.sVer, env, 0, FALSE)
        ELSE CallbackResult(TRUE, self.sCmdPath, self.sVer, env5, 0, FALSE)

\* ToolCheck.checkCallback_XCode: the custom path is looked at first, then
\* /Library/Developer/CommandLineTools.
checkCallback_XCode(self, env, o) ==
    LET sAt == IF o.sFound = "custom" /\ self.sCustomPath # NoPath
               THEN self.sCustomPath
               ELSE <<"/", "Library", "Developer", "CommandLineTools">>
    IN  IF o.sFound = "none" \/ (o.sFound = "custom" /\ self.sCustomPath = NoPath)
        THEN CallbackResult(FALSE, self.sCmdPath, self.sVer, env, 1, FALSE)
        ELSE CallbackResult(TRUE, sAt \o <<"usr", "bin", "xcodebuild">>, self.sVer, env, 0, FALSE)

\* The loop of ToolCheck.performCheck over self.asCmd when no callback is
\* given: every command is looked up, each lookup overwrites sCmdPath and
\* sVer, and one lookup that succeeds sets fHave.
RECURSIVE checkCommands(_, _, _, _, _)
checkCommands(asCmd, aWhich, acc, sCustomPath, enmHostTarget) ==
    IF asCmd = <<>> \/ acc.fRaised THEN acc
    ELSE LET Next(w) ==
                 [fRet |-> IF w.fRaised THEN acc.fRet ELSE (acc.fRet \/ w.sCmdPath # NoPath),
                  sCmdPath |-> IF w.fRaised THEN acc.sCmdPath ELSE w.sCmdPath,
                  sVer |-> IF w.fRaised THEN acc.sVer ELSE w.sVer,
                  env |-> acc.env,
                  cErrors |-> acc.cErrors + w.cErrors,
                  fRaised |-> w.fRaised]
             Rest(a) == checkCommands(Tail(asCmd), Tail(aWhich), a, sCustomPath, enmHostTarget)
         IN  Eval(Eval(checkWhich(Head(asCmd), sCustomPath, enmHostTarget, Head(aWhich)),
                       Next), Rest)

\* A Python bool (or None) held in a tri-state attribute or returned.
PyBool(f) == IF f THEN "True" ELSE "False"

\* g_oEnv['KBUILD_TARGET'] as a BuildTarget value.
KBuildTarget(env) ==
    LET v == EnvManager_get(env, "KBUILD_TARGET")
    IN  IF v = EnvNone \/ v = <<>> THEN None ELSE v[1]

\* ToolCheck.__init__: a tool probe as constructed.
ToolCheck_init(sName) ==
    [sName |-> sName, fDisabled |-> FALSE, sCustomPath |-> NoPath,
     fHave |-> None, sCmdPath |-> NoPath, sVer |-> None]

\* A faulty ToolCheck_disabled: the value returned is self.fHave, as on the
\* path of a probe that is off target.
ToolCheck_disabled_fHave(self, env) ==
    [self |-> [self EXCEPT !.fHave = None], ret |-> None, env |-> env,
     cErrors |-> 0, fRaised |-> FALSE, calls |-> {}]

\* ToolCheck.performCheck of a disabled probe: 'self.fHave = None; return True'.
ToolCheck_disabled(self, env) ==
    [self |-> [self EXCEPT !.fHave = None], ret |-> "True", env |-> env,
     cErrors |-> 0, fRaised |-> FALSE, calls |-> {}]

\* ToolCheck.performCheck: the probe and the store as the call leaves them,
\* the value returned, the errors counted, whether the call raised, and
\* the lookups it made.
ToolCheck_performCheck(self, env, enmHostTarget, sMachine, o) ==
    LET def == ToolDef(self.sName)
        fOnTarget == KBuildTarget(env) \in def.aeTargets \/ ANY \in def.aeTargets
        acc0 == CallbackResult(FALSE, self.sCmdPath, self.sVer, env, 0, FALSE)
        Checked(r) ==
            [self |-> [self EXCEPT !.fHave = PyBool(r.fRet), !.sCmdPath = r.sCmdPath,
                                   !.sVer = r.sVer],
             ret |-> IF r.fRaised THEN None ELSE PyBool(r.fRet), env |-> r.env,
             cErrors |-> r.cErrors + (IF ~r.fRet /\ ~r.fRaised THEN 1 ELSE 0),
             fRaised |-> r.fRaised,
             calls |-> IF def.fnCallback # None THEN {"callback"}
                       ELSE IF def.asCmd # <<>> THEN {"checkWhich"} ELSE {}]
    IN  IF self.fDisabled
        THEN ToolCheck_disabled(self, env)
        ELSE IF fOnTarget
        THEN Eval(CASE def.fnCallback = "checkCallback_gcc" ->
                         checkCallback_gcc(self, env, enmHostTarget, sMachine, o)
                    [] def.fnCallback = "checkCallback_VisualCPP" ->
                         checkCallback_VisualCPP(self, env, enmHostTarget, o)
                    [] def.fnCallback = "checkCallback_XCode" ->
                         checkCallback_XCode(self, env, o)
                    [] OTHER ->
                         checkCommands(def.asCmd, o.aWhich, acc0, self.sCustomPath,
                                       enmHostTarget),
                  Checked)
        ELSE [self |-> self, ret |-> self.fHave, env |-> env,
              cErrors |-> 0, fRaised |-> FALSE, calls |-> {}]

(***************************************************************************)
(* g_aoLibs: the library probes, sorted by name.                           *)
(***************************************************************************)
\* The place of a probe name in the order of Python's string comparison.
NameRank(sName) ==
    CASE sName = "libstdc++" -> 1
      [] sName = "xmu" -> 2
      [] sName = "zlib" -> 3

\* A faulty sorted: the list is left as it is declared.
sorted_asDeclared(aoList) == aoList

\* sorted(..., key=lambda l: l.sName)
sorted(aoList) == SortSeq(aoList, LAMBDA a, b : NameRank(a) < NameRank(b))

\* The probes in the order of their declaration.
g_aoLibsDeclared == <<"libstdc++", "zlib", "xmu">>

g_aoLibs == sorted(g_aoLibsDeclared)

\* LibraryCheck.__init__ of each entry of g_aoLibs.  A header is the path
\* it is included by; a library is its base name.
LibDef(sName) ==
    CASE sName = "libstdc++" ->
           [asIncFiles |-> << <<"c++", "11", "iostream">> >>, asLibFiles |-> <<>>,
            aeTargets |-> {LINUX, SOLARIS, BSD}, aeTargetsExcluded |-> {},
            asAltIncFiles |-> << <<"c++", "4.8.2", "iostream">>, <<"c++", "iostream">> >>]
      [] sName = "xmu" ->
           [asIncFiles |-> << <<"X11", "Xmu", "Xmu.h">> >>, asLibFiles |-> <<"libXmu">>,
            aeTargets |-> {LINUX, SOLARIS, BSD}, aeTargetsExcluded |-> {DARWIN},
            asAltIncFiles |-> <<>>]
      [] sName = "zlib" ->
           [asIncFiles |-> << <<"zlib.h">> >>, asLibFiles |-> <<"libz">>,
            aeTargets |-> {ANY}, aeTargetsExcluded |-> {},
            asAltIncFiles |-> <<>>]
      [] sName = "xrandr" ->
           [asIncFiles |-> << <<"X11", "extensions", "Xrandr.h">> >>,
            asLibFiles |-> <<"libXrandr", "libX11">>,
            aeTargets |-> {LINUX, SOLARIS, BSD}, aeTargetsExcluded |-> {},
            asAltIncFiles |-> <<>>]

Libs == SeqToSet(g_aoLibs)

\* A faulty LibraryCheck_init: the probe starts as Absent.
LibraryCheck_init_absent(sName) ==
    [sName |-> sName, fDisabled |-> FALSE, sCustomPath |-> NoPath,
     asIncPaths |-> <<>>, asLibPaths |-> <<>>, fHave |-> "False", sVer |-> None]

\* LibraryCheck.__init__: a library probe as constructed.  asIncPaths and
\* asLibPaths start as None, which the code never tells from an empty list.
LibraryCheck_init(sName) ==
    [sName |-> sName, fDisabled |-> FALSE, sCustomPath |-> NoPath,
     asIncPaths |-> <<>>, asLibPaths |-> <<>>, fHave |-> None, sVer |-> None]

\* A faulty LibraryCheck_getStatusString: the result is looked at before
\* the disabled flag.
LibraryCheck_getStatusString_resultFirst(self) ==
    IF self.fHave = "True" THEN <<"ok">>
    ELSE IF self.fHave = None THEN <<"?">>
    ELSE IF self.fDisabled THEN <<"DISABLED">>
    ELSE <<"failed">>

\* LibraryCheck.getStatusString, as the words of the string.
LibraryCheck_getStatusString(self) ==
    IF self.fDisabled THEN <<"DISABLED">>
    ELSE IF self.fHave = "True" THEN <<"ok">>
    ELSE IF self.fHave = None THEN <<"?">>
    ELSE <<"failed">>

\* ToolCheck.getStatusString, as the words of the string: 'ok' is followed
\* by the base name of the command in brackets when a command was found.
ToolCheck_getStatusString(self) ==
    IF self.fDisabled THEN <<"DISABLED">>
    ELSE IF self.fHave = "True"
    THEN (IF self.sCmdPath # NoPath THEN <<"ok", "(", basename(self.sCmdPath), ")">>
          ELSE <<"ok">>)
    ELSE IF self.fHave = None THEN <<"?">>
    ELSE <<"failed">>

(***************************************************************************)
(* The host file system: the directories and the files that exist.         *)
(***************************************************************************)
isdir(fs, p) == p \in fs.dirs

isfile(fs, p) == p \in fs.files

exists(fs, p) == p \in fs.dirs \/ p \in fs.files

\* The characters of a file name that the globs and the version pattern of
\* the code tell apart, as tokens; any other name is one token.
NameTokens(sFile) ==
    CASE sFile = "libz.so" -> <<"libz", ".so">>
      [] sFile = "libz.so.1" -> <<"libz", ".so", ".1">>
      [] sFile = "libz.a" -> <<"libz", ".a">>
      [] sFile = "libz.dylib" -> <<"libz", ".dylib">>
      [] sFile = "libz.lib" -> <<"libz", ".lib">>
      [] sFile = "libXmu.so" -> <<"libXmu", ".so">>
      [] sFile = "libXmu.a" -> <<"libXmu", ".a">>
      [] sFile = "libXmu.lib" -> <<"libXmu", ".lib">>
      [] sFile = "libXmu.dylib" -> <<"libXmu", ".dylib">>
      [] sFile = "libXrandr.so" -> <<"libXrandr", ".so">>
      [] sFile = "libXrandr.a" -> <<"libXrandr", ".a">>
      [] sFile = "libXrandr.lib" -> <<"libXrandr", ".lib">>
      [] sFile = "libXrandr.dylib" -> <<"libXrandr", ".dylib">>
      [] sFile = "libX11.so" -> <<"libX11", ".so">>
      [] sFile = "libX11.a" -> <<"libX11", ".a">>
      [] sFile = "libX11.lib" -> <<"libX11", ".lib">>
      [] sFile = "libX11.dylib" -> <<"libX11", ".dylib">>
      [] sFile = "zlib-1.3.1" -> <<"zlib", "-", "1.3.1">>
      [] sFile = "zlib-ng" -> <<"zlib", "-", "ng">>
      [] sFile = "xmu-1.1.4" -> <<"xmu", "-", "1.1.4">>
      [] sFile = "libstdc++-11" -> <<"libstdc++", "-", "11">>
      [] sFile = ".dll.a" -> <<".dll", ".a">>
      [] OTHER -> <<sFile>>

\* The tokens that consist of digits and dots only.
NumericTokens == {"1.3.1", "1.1.4", "11"}

\* fnmatch of a file name against the pattern prefix + '*' + suffix.
GlobMatch(sPrefix, sSuffix, sFile) ==
    LET name == NameTokens(sFile)
    IN  /\ IsPrefix(sPrefix, name)
        /\ IsSuffix(sSuffix, name)
        /\ Len(name) >= Len(sPrefix) + Len(sSuffix)

\* glob.glob(os.path.join(sDir, prefix + '*' + suffix)): the entries found.
glob(fs, sDir, sPrefix, sSuffix) ==
    {p \in fs.dirs \cup fs.files :
        Len(p) = Len(sDir) + 1 /\ dirname(p) = sDir /\ GlobMatch(sPrefix, sSuffix, basename(p))}

\* re.search(r'-([\d\.]+)$', basename): the version a directory name ends with.
VersionOfName(sFile) ==
    LET name == NameTokens(sFile)
    IN  IF Len(name) >= 2 /\ name[Len(name) - 1] = "-" /\ name[Len(name)] \in NumericTokens
        THEN name[Len(name)] ELSE None

(***************************************************************************)
(* Path resolution.                                                        *)
(***************************************************************************)
\* The in-tree copy of a library the search lists name: src/libs/<name>.
InTreePath(sName) == g_sScriptPath \o <<"src", "libs", sName>>

\* The drive letters the Windows fallback looks at, in its order.
HostDrives == <<"C:", "D:">>

\* The 'desperate fallback' of the Windows branch: for every drive that
\* exists, three directories of it and the two Program Files directories.
RECURSIVE DriveFallback(_, _, _)
DriveFallback(fs, asDrives, sLeaf) ==
    IF asDrives = <<>> THEN <<>>
    ELSE (IF exists(fs, <<Head(asDrives)>>)
          THEN << <<Head(asDrives), "msys64", "mingw64", sLeaf>>,
                  <<Head(asDrives), "msys64", "mingw32", sLeaf>>,
                  <<Head(asDrives), sLeaf>>,
                  <<"c:", "Program Files">>, <<"c:", "Program Files (x86)">> >>
          ELSE <<>>)
         \o DriveFallback(fs, Tail(asDrives), sLeaf)

\* The orders in which os.walk(sTop) may yield the directories below sTop:
\* sTop first, a directory before the directories in it.
WalkOrders(fs, sTop) ==
    LET below == {d \in fs.dirs : IsPrefix(sTop, d)}
    IN  IF sTop = NoPath \/ ~isdir(fs, sTop) THEN {<<>>}
        ELSE {w \in Orderings(below) :
                \A i, j \in DOMAIN w : (w[i] # w[j] /\ IsPrefix(w[i], w[j])) => i < j}

\* The roots of a walk that hold a file named sFile, in walk order.
RECURSIVE WalkMatches(_, _, _)
WalkMatches(fs, asWalk, sFile) ==
    IF asWalk = <<>> THEN <<>>
    ELSE (IF isfile(fs, Head(asWalk) \o sFile) THEN <<Head(asWalk)>> ELSE <<>>)
         \o WalkMatches(fs, Tail(asWalk), sFile)

\* A faulty WalkPrepend: the roots are put behind the paths.
RECURSIVE WalkPrepend_appending(_, _, _, _)
WalkPrepend_appending(fs, asWalk, asFiles, asPaths) ==
    IF asFiles = <<>> THEN asPaths
    ELSE LET m == IF Len(Head(asFiles)) = 1
                  THEN WalkMatches(fs, asWalk, Head(asFiles)) ELSE <<>>
         IN  WalkPrepend_appending(fs, asWalk, Tail(asFiles), asPaths \o m)

\* The loop 'for sFile in asFiles: for sRoot in walk: if sFile in files of
\* sRoot: asPaths = [sRoot] + asPaths'.  A name is compared with the file
\* names of a directory, so a name with a directory part matches nothing.
RECURSIVE WalkPrepend(_, _, _, _)
WalkPrepend(fs, asWalk, asFiles, asPaths) ==
    IF asFiles = <<>> THEN asPaths
    ELSE LET m == IF Len(Head(asFiles)) = 1
                  THEN WalkMatches(fs, asWalk, Head(asFiles)) ELSE <<>>
             rev == [i \in 1..Len(m) |-> m[Len(m) + 1 - i]]
         IN  WalkPrepend(fs, asWalk, Tail(asFiles), rev \o asPaths)

\* LibraryCheck.getIncSearchPaths.  fRaised: '"/usr/include/" + sGnuType'
\* raises TypeError when the machine type has no GNU triple.
getIncSearchPaths(self, env, fs, sMachine, asWalk) ==
    LET sGnuType == getLinuxGnuTypeFromPlatform(sMachine)
        fWindows == KBuildTarget(env) = WINDOWS
        asFirst == IF self.sCustomPath # NoPath THEN <<self.sCustomPath>>
                   ELSE <<InTreePath(self.sName)>>
        sVcpkg == EnvManager_get(env, "VCPKG_ROOT")
        asWin == (IF Truthy(sVcpkg) THEN <<sVcpkg \o <<"packages", self.sName>>>> ELSE <<>>)
                 \o DriveFallback(fs, HostDrives, "include")
        asUnix == << <<"/", "usr", "include">>, <<"/", "usr", "local", "include">>,
                     <<"/", "usr", "include", sGnuType>>,
                     <<"/", "usr", "local", "include", sGnuType>>,
                     <<"/", "usr", "include", self.sName>>,
                     <<"/", "usr", "local", "include", self.sName>>,
                     <<"/", "opt", "include">>, <<"/", "opt", "local", "include">> >>
                  \o (IF KBuildTarget(env) = DARWIN
                      THEN << <<"/", "opt", "homebrew", "include">> >> ELSE <<>>)
        asSys == asFirst \o (IF fWindows THEN asWin ELSE asUnix)
        asWalked == IF self.sCustomPath # NoPath
                    THEN WalkPrepend(fs, asWalk, LibDef(self.sName).asIncFiles, asSys)
                    ELSE asSys
        asAll == asWalked \o <<g_sScriptPath \o <<"include">>>>
    IN  IF ~fWindows /\ sGnuType = None
        THEN [asPaths |-> <<>>, fRaised |-> TRUE]
        ELSE [asPaths |-> FilterSeq(asAll, fs.dirs), fRaised |-> FALSE]

\* A faulty getLibSearchPaths_first: the in-tree directory is put before
\* the lib directory of the custom path.
getLibSearchPaths_inTreeFirst(self) ==
    <<InTreePath(self.sName)>>
    \o (IF self.sCustomPath # NoPath THEN <<self.sCustomPath \o <<"lib">>>> ELSE <<>>)

\* The head of the list of getLibSearchPaths: the lib directory of the
\* custom path when one is given, then the in-tree directory.
getLibSearchPaths_first(self) ==
    (IF self.sCustomPath # NoPath THEN <<self.sCustomPath \o <<"lib">>>> ELSE <<>>)
    \o <<InTreePath(self.sName)>>

\* LibraryCheck.getLibSearchPaths.  The result keeps what os.path.exists
\* holds of: directories and files.
getLibSearchPaths(self, env, fs, sMachine, asWalk) ==
    LET sGnuType == getLinuxGnuTypeFromPlatform(sMachine)
        enmTarget == KBuildTarget(env)
        asFirst == getLibSearchPaths_first(self)
        sVcpkg == EnvManager_get(env, "VCPKG_ROOT")
        asWin == (IF Truthy(sVcpkg) THEN <<sVcpkg \o <<"packages", self.sName>>>> ELSE <<>>)
                 \o DriveFallback(fs, HostDrives, "lib")
        asGnu == << <<"/", "usr", "lib">>, <<"/", "usr", "local", "lib">>,
                    <<"/", "usr", "lib", sGnuType>>, <<"/", "opt", "local", "lib", sGnuType>>,
                    <<"/", "usr", "lib64">>, <<"/", "lib">>, <<"/", "lib64">>,
                    <<"/", "opt", "lib">>, <<"/", "opt", "local", "lib">> >>
        asSys == asFirst
                 \o (IF enmTarget = WINDOWS THEN asWin
                     ELSE IF enmTarget \in {LINUX, SOLARIS} THEN asGnu
                     ELSE << <<"/", "opt", "homebrew", "lib">> >>)
        asLibNames == [i \in DOMAIN LibDef(self.sName).asLibFiles |->
                          <<LibDef(self.sName).asLibFiles[i]>>]
        asWalked == IF self.sCustomPath # NoPath
                    THEN WalkPrepend(fs, asWalk, asLibNames, asSys)
                    ELSE asSys
    IN  IF enmTarget \in {LINUX, SOLARIS} /\ sGnuType = None
        THEN [asPaths |-> <<>>, fRaised |-> TRUE]
        ELSE [asPaths |-> FilterSeq(asWalked, fs.dirs \cup fs.files), fRaised |-> FALSE]

\* The inner loop of checkInc: the first search path that holds the header.
RECURSIVE FirstPathWith(_, _, _)
FirstPathWith(fs, asSearchPaths, sHeader) ==
    IF asSearchPaths = <<>> THEN NoPath
    ELSE IF isfile(fs, Head(asSearchPaths) \o sHeader) THEN Head(asSearchPaths)
    ELSE FirstPathWith(fs, Tail(asSearchPaths), sHeader)

\* A faulty FoundPaths: the loop ends at the first header that is not found.
RECURSIVE FoundPaths_untilMissing(_, _, _)
FoundPaths_untilMissing(fs, asSearchPaths, asHeaders) ==
    IF asHeaders = <<>> THEN <<>>
    ELSE LET sPath == FirstPathWith(fs, asSearchPaths, Head(asHeaders))
         IN  IF sPath = NoPath THEN <<>>
             ELSE <<sPath>> \o FoundPaths_untilMissing(fs, asSearchPaths, Tail(asHeaders))

\* The outer loop of checkInc: the path of every header that is found, in
\* header order.
RECURSIVE FoundPaths(_, _, _)
FoundPaths(fs, asSearchPaths, asHeaders) ==
    IF asHeaders = <<>> THEN <<>>
    ELSE LET sPath == FirstPathWith(fs, asSearchPaths, Head(asHeaders))
         IN  (IF sPath # NoPath THEN <<sPath>> ELSE <<>>)
             \o FoundPaths(fs, asSearchPaths, Tail(asHeaders))

\* LibraryCheck.checkInc
checkInc(self, env, fs, sMachine, asWalk) ==
    LET def == LibDef(self.sName)
        asHeaderToSearch == def.asIncFiles \o def.asAltIncFiles
        Result(search, asFound) ==
            [fRet |-> Len(asFound) = Len(asHeaderToSearch),
             asIncPaths |-> self.asIncPaths \o asFound,
             cErrors |-> IF Len(asFound) = Len(asHeaderToSearch) THEN 0 ELSE 1,
             fRaised |-> FALSE, fSearched |-> TRUE, asSearchPaths |-> search.asPaths]
        Searched(search) ==
            IF search.fRaised
            THEN [fRet |-> FALSE, asIncPaths |-> self.asIncPaths, cErrors |-> 0,
                  fRaised |-> TRUE, fSearched |-> TRUE, asSearchPaths |-> <<>>]
            ELSE Eval(FoundPaths(fs, search.asPaths, asHeaderToSearch),
                      LAMBDA asFound : Result(search, asFound))
    IN  IF asHeaderToSearch = <<>>
        THEN [fRet |-> TRUE, asIncPaths |-> self.asIncPaths, cErrors |-> 0,
              fRaised |-> FALSE, fSearched |-> FALSE, asSearchPaths |-> <<>>]
        ELSE Eval(getIncSearchPaths(self, env, fs, sMachine, asWalk), Searched)

\* The library suffixes checkLib looks for on a target.
asLibExts(enmTarget) ==
    CASE enmTarget = WINDOWS -> <<".lib", ".dll", ".a", ".dll.a">>
      [] enmTarget = DARWIN -> <<".a", ".dylib", ".so">>
      [] OTHER -> <<".a", ".so">>

\* Whether a search path holds a file matching one library name and suffix.
HoldsLibrary(fs, sSearchPath, asLibToSearch, asExts) ==
    \E i \in DOMAIN asLibToSearch, j \in DOMAIN asExts :
        \E f \in glob(fs, sSearchPath, <<asLibToSearch[i]>>, NameTokens(asExts[j])) :
            isfile(fs, f)

\* The loops of checkLib: the first search path that holds a match.
RECURSIVE FirstLibPath(_, _, _, _)
FirstLibPath(fs, asSearchPaths, asLibToSearch, asExts) ==
    IF asSearchPaths = <<>> THEN NoPath
    ELSE IF HoldsLibrary(fs, Head(asSearchPaths), asLibToSearch, asExts)
    THEN Head(asSearchPaths)
    ELSE FirstLibPath(fs, Tail(asSearchPaths), asLibToSearch, asExts)

\* LibraryCheck.checkLib
checkLib(self, env, fs, sMachine, asWalk) ==
    LET def == LibDef(self.sName)
        Result(search, sPath) ==
            IF sPath # NoPath
            THEN [fRet |-> TRUE, asLibPaths |-> Append(self.asLibPaths, sPath), cErrors |-> 0,
                  fRaised |-> FALSE, fSearched |-> TRUE, asSearchPaths |-> search.asPaths]
            ELSE [fRet |-> FALSE, asLibPaths |-> self.asLibPaths, cErrors |-> 1,
                  fRaised |-> FALSE, fSearched |-> TRUE, asSearchPaths |-> search.asPaths]
        Searched(search) ==
            IF search.fRaised
            THEN [fRet |-> FALSE, asLibPaths |-> self.asLibPaths, cErrors |-> 0,
                  fRaised |-> TRUE, fSearched |-> TRUE, asSearchPaths |-> <<>>]
            ELSE Eval(FirstLibPath(fs, search.asPaths, def.asLibFiles,
                                   asLibExts(KBuildTarget(env))),
                      LAMBDA sPath : Result(search, sPath))
    IN  IF def.asLibFiles = <<>>
        THEN [fRet |-> TRUE, asLibPaths |-> self.asLibPaths, cErrors |-> 0,
              fRaised |-> FALSE, fSearched |-> FALSE, asSearchPaths |-> <<>>]
        ELSE Eval(getLibSearchPaths(self, env, fs, sMachine, asWalk), Searched)

(***************************************************************************)
(* The compile test harness.                                               *)
(***************************************************************************)
\* The names hasCPPHeader takes for marks of C++, each as its tokens.
asCPPHdr ==
    << <<"c++">>, <<"iostream">>, <<"Qt">>, <<"qt">>, <<"qglobal.h">>, <<"qcoreapplication.h">> >>

\* 'c in h' of two names given by their tokens.
IsSubstring(c, h) == \E i \in 0..(Len(h) - Len(c)) : SubSeq(h, i + 1, i + Len(c)) = c

\* hasCPPHeader: the headers are appended to the list of marks, and the
\* answer is whether any name of that list has a name of that list in it.
hasCPPHeader(asHeader) ==
    IF Len(asHeader) = 0 THEN FALSE
    ELSE LET asAll == asCPPHdr \o asHeader
         IN  \E i \in DOMAIN asAll :
                 asAll[i] # <<>> /\ \E j \in DOMAIN asAll : IsSubstring(asAll[j], asAll[i])

\* What compiling and running the test program can come to on a host:
\*   compile_fail         the compiler exits non-zero
\*   compile_timeout      the compiler runs longer than 15 seconds
\*                        (TimeoutExpired, a SubprocessError)
\*   compile_notfound     FileNotFoundError: no such compiler
\*   compile_permission   PermissionError: the compiler may not be executed
\*   compile_oserror      another OSError of subprocess.run (no memory or no
\*                        process left to fork, an argument list too long,
\*                        a compiler file that is no executable format)
\*   run_ok, run_fail     the test program exits with 0, with another status
\*   run_timeout          the test program runs longer than 10 seconds
HarnessKinds ==
    {"compile_fail", "compile_timeout", "compile_notfound", "compile_permission",
     "compile_oserror", "run_ok", "run_fail", "run_timeout"}

\* What the test program of a library prints when it runs to its end
\* (the sCode of its g_aoLibs entry).
TestOutput(sName) ==
    CASE sName = "libstdc++" -> "20230528"
      [] sName = "xmu" -> "<found>"
      [] sName = "zlib" -> "1.3.1"

\* The white space str.strip() removes, as tokens of a captured output.
WhiteSpace == {" ", "\n", "\r\n", "\t"}

\* str.lstrip() of a captured output.
RECURSIVE lstrip(_)
lstrip(asOut) ==
    IF asOut # <<>> /\ Head(asOut) \in WhiteSpace THEN lstrip(Tail(asOut)) ELSE asOut

\* str.rstrip() of a captured output.
RECURSIVE rstrip(_)
rstrip(asOut) ==
    IF asOut # <<>> /\ asOut[Len(asOut)] \in WhiteSpace
    THEN rstrip(SubSeq(asOut, 1, Len(asOut) - 1)) ELSE asOut

\* A faulty strip: the output is kept as it was captured.
strip_asCaptured(asOut) == asOut

\* str.strip() of a captured output.
strip(asOut) == rstrip(lstrip(asOut))

\* The text of a captured output (bytes.decode).
RECURSIVE decode(_)
decode(asOut) == IF asOut = <<>> THEN "" ELSE Head(asOut) \o decode(Tail(asOut))

\* The outcomes with the output captured from the test program (printed
\* as it is, or with the end of line a console adds), and the temporary
\* files whose os.remove raises PermissionError: none, or the image of a
\* test program that did not end in its time.
HarnessOutcomes(sName) ==
    [kind : HarnessKinds \ {"run_ok"}, out : {<<>>}, asDenied : {{}}]
    \cup [kind : {"run_ok"}, out : {<<TestOutput(sName)>>, <<TestOutput(sName), "\r\n">>},
          asDenied : {{}}]
    \cup [kind : {"run_timeout"}, out : {<<>>}, asDenied : {{"image"}}]

\* A faulty compileAndExecute_fRet: a test program that was stopped after
\* its 10 seconds counts as run.
compileAndExecute_fRet_lenient(h) == h.kind \in {"run_ok", "run_timeout"}

\* fRet of compileAndExecute: True only where the test program exited with 0.
compileAndExecute_fRet(h) == h.kind = "run_ok"

\* The temporary files compileAndExecute leaves behind (g_fDebug off): the
\* source is written before the compiler runs and the image exists once the
\* compiler exited with 0; the cleanup passes over a PermissionError of
\* os.remove, and is not reached when subprocess.run raised an exception
\* that no except clause names.
compileAndExecute_asTempLeft(h) ==
    LET asMade == {"source"} \cup (IF h.kind \in {"run_ok", "run_fail", "run_timeout"}
                                   THEN {"image"} ELSE {})
    IN  IF h.kind = "compile_oserror" THEN asMade ELSE asMade \cap h.asDenied

\* Whether the directory of tempfile.mkdtemp is on disk when
\* compileAndExecute is left (g_fDebug off).  os.rmdir follows the loop over
\* asFilesToDelete inside one try statement: os.remove of an image that
\* was never made raises FileNotFoundError, which only the outer 'except
\* OSError' names, so os.rmdir is passed over; os.rmdir of a directory in
\* which a file stayed raises OSError; and the cleanup is not reached when
\* subprocess.run raised an exception that no except clause names.
compileAndExecute_fTempDirLeft(h) ==
    \/ h.kind \notin {"run_ok", "run_fail", "run_timeout"}
    \/ compileAndExecute_asTempLeft(h) # {}

\* compileAndExecute (module level).  sRaised: the assert on a compiler
\* that no tool probe has stored, or the OSError that is not caught.
compileAndExecute(env, enmBuildTarget, asIncPaths, asLibPaths, asIncFiles, fLog, h) ==
    LET sCompiler == IF enmBuildTarget = WINDOWS \/ hasCPPHeader(asIncFiles)
                     THEN EnvManager_get(env, "config_cpp_compiler")
                     ELSE EnvManager_get(env, "config_c_compiler")
        envProc == IF enmBuildTarget = WINDOWS
                   THEN EnvPrependAll(EnvPrependAll(env, "INCLUDE", asIncPaths, enmBuildTarget),
                                      "LIB", asLibPaths, enmBuildTarget)
                   ELSE env
        cLogged == IF fLog THEN 1 ELSE 0
    IN  IF sCompiler = EnvNone
        THEN [fRet |-> FALSE, sStdOut |-> None, env |-> env, cErrors |-> 0, fRaised |-> TRUE,
              sHarness |-> "raised", asTempLeft |-> {}, fTempDirLeft |-> FALSE,
              sCompiler |-> sCompiler]
        ELSE IF h.kind = "compile_oserror"
        THEN [fRet |-> FALSE, sStdOut |-> None, env |-> envProc, cErrors |-> 0,
              fRaised |-> TRUE, sHarness |-> h.kind,
              asTempLeft |-> compileAndExecute_asTempLeft(h),
              fTempDirLeft |-> compileAndExecute_fTempDirLeft(h), sCompiler |-> sCompiler]
        ELSE [fRet |-> compileAndExecute_fRet(h),
              sStdOut |-> CASE h.kind = "run_ok" -> decode(strip(h.out))
                            [] h.kind = "compile_fail" -> decode(h.out)
                            [] OTHER -> None,
              env |-> envProc,
              cErrors |-> CASE h.kind = "compile_fail" -> cLogged
                            [] h.kind = "compile_timeout" -> 1
                            [] h.kind = "compile_notfound" -> 1
                            [] h.kind = "compile_permission" -> 0
                            [] h.kind = "run_ok" -> 0
                            [] h.kind = "run_fail" -> cLogged
                            [] h.kind = "run_timeout" -> cLogged,
              fRaised |-> FALSE, sHarness |-> h.kind,
              asTempLeft |-> compileAndExecute_asTempLeft(h),
              fTempDirLeft |-> compileAndExecute_fTempDirLeft(h), sCompiler |-> sCompiler]

\* A faulty LibraryCheck.compileAndExecute: the result of the harness is
\* dropped and success is returned.
LibraryCheck_compileAndExecute_trusting(self, env, enmBuildTarget, h) ==
    LET Ran(r) ==
            [self |-> self, fRet |-> TRUE, env |-> r.env, cErrors |-> r.cErrors,
             fRaised |-> r.fRaised, sHarness |-> r.sHarness, asTempLeft |-> r.asTempLeft]
    IN  Eval(compileAndExecute(env, enmBuildTarget, self.asIncPaths, self.asLibPaths,
                               LibDef(self.sName).asIncFiles, TRUE, h), Ran)

\* LibraryCheck.compileAndExecute: the version is what the program printed,
\* when it printed anything.
LibraryCheck_compileAndExecute(self, env, enmBuildTarget, h) ==
    LET Ran(r) ==
            [self |-> IF r.fRet /\ r.sStdOut # "" THEN [self EXCEPT !.sVer = r.sStdOut]
                      ELSE self,
             fRet |-> r.fRet, env |-> r.env, cErrors |-> r.cErrors, fRaised |-> r.fRaised,
             sHarness |-> r.sHarness, asTempLeft |-> r.asTempLeft]
    IN  Eval(compileAndExecute(env, enmBuildTarget, self.asIncPaths, self.asLibPaths,
                               LibDef(self.sName).asIncFiles, TRUE, h), Ran)

(***************************************************************************)
(* The tool probe python_c_api.                                            *)
(***************************************************************************)
\* What sysconfig answers on a host: the include path is given, empty, or
\* below the WindowsApps directory (a Windows host); LDLIBRARY is a string
\* or None.
PythonHosts(enmHostTarget) ==
    [sPathInc : {"given", "empty"} \cup (IF enmHostTarget = WINDOWS THEN {"WindowsApps"} ELSE {}),
     fLdLib : BOOLEAN,
     h : [kind : HarnessKinds, out : {<<>>}, asDenied : {{}}]]

\* sysconfig.get_paths()['include'], get_config_var('LIBDIR') and
\* get_paths()['data'] of the host's interpreter.
sysconfig_path(enmHostTarget, sWhat) ==
    (IF enmHostTarget = WINDOWS THEN <<"C:", "Python311">> ELSE <<"/", "usr">>)
    \o (CASE sWhat = "include" -> <<"include">>
           [] sWhat = "LIBDIR" -> <<"lib">>
           [] OTHER -> <<>>)

\* Python truth of a tuple: it is true when it has an element.
TupleTruthy(aTuple) == Len(aTuple) > 0

\* ToolCheck.checkCallback_PythonC_API.  compileAndExecute returns the
\* tuple (fRet, sStdOut, sStdErr) and the callback tests the tuple.
\* fRaised: sLdLib.endswith on a None, or the harness raised.
checkCallback_PythonC_API(self, env, enmHostTarget, o) ==
    LET asPathInc == sysconfig_path(enmHostTarget, "include")
        sLibDir == sysconfig_path(enmHostTarget, "LIBDIR")
        envPath == EnvManager_prependPath(env, "PATH", sysconfig_path(enmHostTarget, "data"),
                                          enmHostTarget)
        Ran(r) ==
            IF r.fRaised
            THEN CallbackResult(FALSE, self.sCmdPath, self.sVer, r.env, r.cErrors, TRUE)
            ELSE IF TupleTruthy(<<r.fRet, r.sStdOut, None>>)
            THEN CallbackResult(TRUE, self.sCmdPath, self.sVer,
                                EnvSetAll(r.env, << <<"VBOX_WITH_PYTHON", <<"1">>>>,
                                                    <<"VBOX_PATH_PYTHON_INC", asPathInc>>,
                                                    <<"VBOX_LIB_PYTHON", sLibDir>> >>),
                                r.cErrors, FALSE)
            ELSE CallbackResult(FALSE, self.sCmdPath, self.sVer, r.env, r.cErrors, FALSE)
    IN  IF enmHostTarget = DARWIN
        THEN CallbackResult(TRUE, self.sCmdPath, self.sVer, env, 0, FALSE)
        ELSE IF o.sPathInc \in {"empty", "WindowsApps"}
        THEN CallbackResult(FALSE, self.sCmdPath, self.sVer, env, 1, FALSE)
        ELSE IF ~o.fLdLib
        THEN CallbackResult(FALSE, self.sCmdPath, self.sVer, env, 0, TRUE)
        ELSE Eval(compileAndExecute(envPath, enmHostTarget, <<asPathInc>>, <<sLibDir>>, <<>>,
                                    TRUE, o.h), Ran)

\* Whether the callback gets to the harness on a host.
PythonC_API_harnessed(enmHostTarget, o) ==
    enmHostTarget # DARWIN /\ o.sPathInc = "given" /\ o.fLdLib

\* ToolCheck.performCheck of the probe python_c_api (declared for any
\* target) when it is not disabled: fHave is what the callback returns.
ToolCheck_performCheck_PythonC_API(self, env, enmHostTarget, o) ==
    LET Checked(r) ==
            [self |-> [self EXCEPT !.fHave = PyBool(r.fRet)],
             ret |-> IF r.fRaised THEN None ELSE PyBool(r.fRet), env |-> r.env,
             cErrors |-> r.cErrors + (IF ~r.fRet /\ ~r.fRaised THEN 1 ELSE 0),
             fRaised |-> r.fRaised, calls |-> {"callback"}]
    IN  Eval(checkCallback_PythonC_API(self, env, enmHostTarget, o), Checked)

(***************************************************************************)
(* The library probe.                                                      *)
(***************************************************************************)
\* What a call of LibraryCheck.performCheck did, beside its result: which
\* lookups it made, what the checks said and the lists they searched.
LibTrace(calls, fInc, fLib, sHarness, asIncSearch, asLibSearch) ==
    [calls |-> calls, fInc |-> fInc, fLib |-> fLib, sHarness |-> sHarness,
     asIncSearch |-> asIncSearch, asLibSearch |-> asLibSearch, asTempLeft |-> {}]

NoTrace == LibTrace({}, None, None, None, <<>>, <<>>)

\* A faulty relpath: the path is kept as glob returned it.
relpath_asFound(sPath) == sPath

\* os.path.relpath(sPath, g_sScriptPath) of a path below the script path.
relpath(sPath) == SubSeq(sPath, Len(g_sScriptPath) + 1, Len(sPath))

\* LibraryCheck.performCheck.  asPatternMatches is what the glob for
\* src/libs/<name>-* returned, in the order it returned it; asWalk is the
\* order os.walk yields the custom path in; h is what the harness meets.
LibraryCheck_performCheck(self, env, fs, sMachine, asPatternMatches, asWalk, h) ==
    LET def == LibDef(self.sName)
        enmTarget == KBuildTarget(env)
        fOnTarget == enmTarget \in def.aeTargets \/ ANY \in def.aeTargets
        fGlob == self.sCustomPath = NoPath
        sCurMatch == Head(asPatternMatches)
        sMatchVer == VersionOfName(basename(sCurMatch))
        self0 == [self EXCEPT !.fHave = "False"]
        callsGlob == IF fGlob THEN {"glob"} ELSE {}
        Result(s, ret, e, c, fRaised, trace) ==
            [self |-> s, ret |-> ret, env |-> e, cErrors |-> c, fRaised |-> fRaised,
             trace |-> trace]
        Compiled(inc, lib, self2, callsLib, cae) ==
            IF cae.fRaised
            THEN Result(self2, None, cae.env, 0, TRUE,
                        [LibTrace(callsLib \cup {"compileAndExecute"}, "True", "True",
                                  cae.sHarness, inc.asSearchPaths, lib.asSearchPaths)
                            EXCEPT !.asTempLeft = cae.asTempLeft])
            ELSE Result([cae.self EXCEPT !.fHave = PyBool(cae.fRet)], PyBool(cae.fRet),
                        cae.env, cae.cErrors + (IF cae.fRet THEN 0 ELSE 1), FALSE,
                        [LibTrace(callsLib \cup {"compileAndExecute"}, "True", "True",
                                  cae.sHarness, inc.asSearchPaths, lib.asSearchPaths)
                            EXCEPT !.asTempLeft = cae.asTempLeft])
        LibChecked(inc, self1, callsInc, lib) ==
            LET self2 == [self1 EXCEPT !.asLibPaths = lib.asLibPaths]
                callsLib == callsInc \cup (IF lib.fSearched THEN {"getLibSearchPaths"} ELSE {})
            IN  IF lib.fRaised
                THEN Result(self1, None, env, 0, TRUE,
                            LibTrace(callsLib, "True", None, None, inc.asSearchPaths, <<>>))
                ELSE IF ~lib.fRet
                THEN Result(self2, "False", env, lib.cErrors + 1, FALSE,
                            LibTrace(callsLib, "True", "False", None,
                                     inc.asSearchPaths, lib.asSearchPaths))
                ELSE Eval(LibraryCheck_compileAndExecute(self2, env, enmTarget, h),
                          LAMBDA cae : Compiled(inc, lib, self2, callsLib, cae))
        IncChecked(inc) ==
            LET self1 == [self0 EXCEPT !.asIncPaths = inc.asIncPaths]
                callsInc == callsGlob \cup (IF inc.fSearched THEN {"getIncSearchPaths"} ELSE {})
            IN  IF inc.fRaised
                THEN Result(self0, None, env, 0, TRUE,
                            LibTrace(callsInc, None, None, None, <<>>, <<>>))
                ELSE IF ~inc.fRet
                THEN Result(self1, "False", env, inc.cErrors + 1, FALSE,
                            LibTrace(callsInc, "False", None, None, inc.asSearchPaths, <<>>))
                ELSE Eval(checkLib(self1, env, fs, sMachine, asWalk),
                          LAMBDA lib : LibChecked(inc, self1, callsInc, lib))
    IN  IF enmTarget \in def.aeTargetsExcluded
        THEN Result(self, "True", env, 0, FALSE, NoTrace)
        ELSE IF self.fDisabled
        THEN Result(self, "True", env, 0, FALSE, NoTrace)
        ELSE IF fGlob /\ asPatternMatches # <<>>
        THEN Result([self EXCEPT !.fHave = "True",
                                 !.sVer = IF sMatchVer # None THEN sMatchVer ELSE @,
                                 !.asIncPaths = Append(@, relpath(sCurMatch))],
                    "True", env, 0, FALSE,
                    LibTrace(callsGlob, None, None, None, <<>>, <<>>))
        ELSE IF ~fOnTarget
        THEN Result(self0, "False", env, 0, FALSE,
                    LibTrace(callsGlob, None, None, None, <<>>, <<>>))
        ELSE Eval(checkInc(self0, env, fs, sMachine, asWalk), IncChecked)

(***************************************************************************)
(* The command line.  oArgs is the argparse namespace: a value for every   *)
(* destination, in the order the arguments are added.                      *)
(***************************************************************************)
\* Python's True and False as argparse stores them; str(True) is 'True'.
ArgTrue == <<"True">>
ArgFalse == <<"False">>

\* Python truth of a namespace value: None, False and '' are false.
ArgTruthy(aValue) == aValue \notin {EnvNone, ArgFalse, <<>>}

\* The destination of --disable-<lib>, --with-<lib>-path and --only-<lib>.
LibDest(sWhat, sName) ==
    CASE sWhat = "disable" /\ sName = "libstdc++" -> "config_libs_disable_libstdc++"
      [] sWhat = "disable" /\ sName = "xmu" -> "config_libs_disable_xmu"
      [] sWhat = "disable" /\ sName = "zlib" -> "config_libs_disable_zlib"
      [] sWhat = "path" /\ sName = "libstdc++" -> "config_libs_path_libstdc++"
      [] sWhat = "path" /\ sName = "xmu" -> "config_libs_path_xmu"
      [] sWhat = "path" /\ sName = "zlib" -> "config_libs_path_zlib"
      [] sWhat = "only" /\ sName = "libstdc++" -> "config_libs_only_libstdc++"
      [] sWhat = "only" /\ sName = "xmu" -> "config_libs_only_xmu"
      [] sWhat = "only" /\ sName = "zlib" -> "config_libs_only_zlib"

\* The destination of --disable-<tool>, --with-<tool>-path and --only-<tool>.
ToolDest(sWhat, sName) ==
    CASE sWhat = "disable" /\ sName = "gcc" -> "config_tools_disable_gcc"
      [] sWhat = "disable" /\ sName = "visualcpp" -> "config_tools_disable_visualcpp"
      [] sWhat = "disable" /\ sName = "java" -> "config_tools_disable_java"
      [] sWhat = "disable" /\ sName = "xcode" -> "config_tools_disable_xcode"
      [] sWhat = "path" /\ sName = "gcc" -> "config_tools_path_gcc"
      [] sWhat = "path" /\ sName = "visualcpp" -> "config_tools_path_visualcpp"
      [] sWhat = "path" /\ sName = "java" -> "config_tools_path_java"
      [] sWhat = "path" /\ sName = "xcode" -> "config_tools_path_xcode"
      [] sWhat = "only" /\ sName = "gcc" -> "config_tools_only_gcc"
      [] sWhat = "only" /\ sName = "visualcpp" -> "config_tools_only_visualcpp"
      [] sWhat = "only" /\ sName = "java" -> "config_tools_only_java"
      [] sWhat = "only" /\ sName = "xcode" -> "config_tools_only_xcode"

\* The destinations, in the order main adds them (those of the probes of
\* the model, and those main or the transform rules read).
ArgOrder ==
    <<
       "config_libs_disable_libstdc++", "config_libs_path_libstdc++",
       "config_libs_only_libstdc++", "config_libs_disable_libvpx",
       "config_libs_disable_xmu", "config_libs_path_xmu",
       "config_libs_only_xmu", "config_libs_disable_zlib", "config_libs_path_zlib",
       "config_libs_only_zlib", "config_tools_disable_gcc", "config_tools_path_gcc",
       "config_tools_only_gcc", "config_tools_disable_visualcpp",
       "config_tools_path_visualcpp", "config_tools_only_visualcpp",
       "config_tools_disable_java", "config_tools_path_java", "config_tools_only_java", "config_tools_path_kbuild",
       "config_tools_disable_xcode", "config_tools_path_xcode",
       "config_tools_only_xcode", "VBOX_WITH_DOCS=", "VBOX_WITH_HARDENING=1",
       "VBOX_WITH_HARDENing=", "config_file_autoconfig", "config_file_env",
       "config_file_log", "VBOX_ONLY_ADDITIONS=", "config_path_out_base", "VBOX_OSE=1",
       "config_debug", "config_nofatal", "KBUILD_TYPE=profile", "config_build_target",
       "config_build_arch", "KBUILD_TYPE=debug", "config_build_headless",
       "config_disable_com" >>

ArgDests == SeqToSet(ArgOrder)

\* The default of each destination on a host.
ArgDefault(sDest, enmHostTarget) ==
    CASE sDest = "config_file_autoconfig" -> <<"AutoConfig.kmk">>
      [] sDest = "config_file_env" ->
           IF enmHostTarget = WINDOWS THEN <<"env.bat">> ELSE <<"env.sh">>
      [] sDest = "config_file_log" -> <<"configure.log">>
      [] sDest \in {"config_debug", "config_nofatal", "config_build_headless",
                    "config_disable_com"} -> ArgFalse
      [] OTHER -> EnvNone

\* The custom path the operator may give for a probe.
CustomDir == <<"/", "opt", "custom">>

\* The options a command line of the model is made of: destination and value.
Options ==
    { <<"config_nofatal", ArgTrue>>,
      <<"config_libs_disable_zlib", ArgTrue>>,
      <<"config_libs_path_zlib", CustomDir>>,
      <<"config_libs_only_zlib", ArgTrue>>,
      <<"config_libs_only_xmu", ArgTrue>>,
      <<"config_libs_disable_libstdc++", ArgTrue>>,
      <<"config_tools_disable_gcc", ArgTrue>>,
      <<"config_tools_only_java", ArgTrue>>,
      <<"VBOX_OSE=1", ArgTrue>>,
      <<"config_build_headless", ArgTrue>>,
      <<"config_build_target", ArgTrue>>,
      <<"config_libs_disable_libvpx", ArgTrue>>,
      <<"config_disable_com", ArgTrue>>,
      <<"VBOX_WITH_DOCS=", ArgTrue>> }

\* parse_args: the namespace of a command line.
parse_args(asGiven, enmHostTarget) ==
    [sDest \in ArgDests |->
        IF \E o \in asGiven : o[1] = sDest
        THEN (CHOOSE o \in asGiven : o[1] = sDest)[2]
        ELSE ArgDefault(sDest, enmHostTarget)]

\* A destination that is no config_ key names a store key and its value.
SplitDest(sDest) ==
    CASE sDest = "VBOX_WITH_DOCS=" -> <<"VBOX_WITH_DOCS", <<>>>>
      [] sDest = "VBOX_WITH_HARDENING=1" -> <<"VBOX_WITH_HARDENING", <<"1">>>>
      [] sDest = "VBOX_WITH_HARDENing=" -> <<"VBOX_WITH_HARDENing", <<>>>>
      [] sDest = "VBOX_ONLY_ADDITIONS=" -> <<"VBOX_ONLY_ADDITIONS", <<>>>>
      [] sDest = "VBOX_OSE=1" -> <<"VBOX_OSE", <<"1">>>>
      [] sDest = "KBUILD_TYPE=profile" -> <<"KBUILD_TYPE", <<"profile">>>>
      [] sDest = "KBUILD_TYPE=debug" -> <<"KBUILD_TYPE", <<"debug">>>>

\* The store key and the value updateFromArgs sets for a destination: a
\* config_ destination is stored under its own name, str() of its value.
ArgStoreEntry(sDest, aValue) ==
    IF sDest \in {"VBOX_WITH_DOCS=", "VBOX_WITH_HARDENING=1", "VBOX_WITH_HARDENing=",
                  "VBOX_ONLY_ADDITIONS=", "VBOX_OSE=1", "KBUILD_TYPE=profile",
                  "KBUILD_TYPE=debug"}
    THEN SplitDest(sDest)
    ELSE <<sDest, aValue>>

\* EnvManager.updateFromArgs: every destination with a true value is set,
\* in namespace order.
updateFromArgs(env, args) ==
    LET aiSet == {i \in DOMAIN ArgOrder : ArgTruthy(args[ArgOrder[i]])}
        aiOrder == [n \in 1..Cardinality(aiSet) |->
                       CHOOSE i \in aiSet : Cardinality({j \in aiSet : j < i}) = n - 1]
    IN  EnvSetAll(env, [n \in DOMAIN aiOrder |->
                           ArgStoreEntry(ArgOrder[aiOrder[n]], args[ArgOrder[aiOrder[n]]])])

\* LibraryCheck.setArgs
LibraryCheck_setArgs(self, oArgs) ==
    [self EXCEPT !.fDisabled = ArgTruthy(oArgs[LibDest("disable", self.sName)]),
                 !.sCustomPath = IF oArgs[LibDest("path", self.sName)] = EnvNone THEN NoPath
                                 ELSE oArgs[LibDest("path", self.sName)]]

\* ToolCheck.setArgs
ToolCheck_setArgs(self, oArgs) ==
    [self EXCEPT !.fDisabled = ArgTruthy(oArgs[ToolDest("disable", self.sName)]),
                 !.sCustomPath = IF oArgs[ToolDest("path", self.sName)] = EnvNone THEN NoPath
                                 ELSE oArgs[ToolDest("path", self.sName)]]

(***************************************************************************)
(* The transform rules of main, in list order.                             *)
(***************************************************************************)
\* The i-th entry of envTransforms applied to the store: the keys it sets.
envTransforms(i, env) ==
    LET on(sKey) == Truthy(EnvManager_get(env, sKey))
        is(sKey, sVal) == EnvManager_get(env, sKey) = sVal
    IN  CASE i = 1 -> IF on("VBOX_ONLY_ADDITIONS") \/ is("VBOX_WITH_DOCS", <<>>)
                      THEN << <<"VBOX_WITH_DOCS_PACKING", <<>>>> >> ELSE <<>>
          [] i = 2 -> IF on("VBOX_ONLY_ADDITIONS") \/ is("VBOX_OSE", <<"1">>)
                      THEN << <<"VBOX_WITH_EXTPACK_VNC", <<>>>> >> ELSE <<>>
          [] i = 3 -> IF on("VBOX_ONLY_ADDITIONS")
                      THEN << <<"VBOX_WITH_WEBSERVICES", <<>>>> >> ELSE <<>>
          [] i = 4 -> IF on("VBOX_OSE")
                      THEN << <<"VBOX_WITH_VALIDATIONKIT", <<>>>>,
                              <<"VBOX_WITH_WIN32_ADDITIONS", <<>>>> >> ELSE <<>>
          [] i = 5 -> IF on("VBOX_ONLY_ADDITIONS")
                      THEN << <<"VBOX_WITH_EXTPACK_PUEL_BUILD", <<>>>> >> ELSE <<>>
          [] i = 6 -> IF on("CONFIG_LIBS_DISABLE_QT")
                      THEN << <<"VBOX_WITH_QTGUI", <<>>>> >> ELSE <<>>
          [] i = 7 -> IF on("CONFIG_BUILD_HEADLESS")
                      THEN << <<"VBOX_WITH_HEADLESS", <<"1">>>>, <<"VBOX_WITH_QTGUI", <<>>>>,
                              <<"VBOX_WITH_SECURELABEL", <<>>>>, <<"VBOX_WITH_VMSVGA3D", <<>>>>,
                              <<"VBOX_WITH_3D_ACCELERATION", <<>>>>, <<"VBOX_GUI_USE_QGL", <<>>>> >>
                      ELSE <<>>
          [] i = 8 -> IF on("CONFIG_LIBS_DISABLE_LIBVPX")
                      THEN << <<"VBOX_WITH_LIBVPX", <<>>>>, <<"VBOX_WITH_RECORDING", <<>>>> >>
                      ELSE <<>>
          [] i = 9 -> IF on("CONFIG_LIBS_DISABLE_LIBOGG") /\ on("CONFIG_LIBS_DISABLE_LIBVORBIS")
                      THEN << <<"VBOX_WITH_LIBOGG", <<>>>>, <<"VBOX_WITH_LIBVORBIS", <<>>>>,
                              <<"VBOX_WITH_AUDIO_RECORDING", <<>>>> >>
                      ELSE <<>>
          [] i = 10 -> IF on("CONFIG_TOOLS_DISABLE_GSOAP")
                       THEN << <<"VBOX_WITH_GSOAP", <<>>>>, <<"VBOX_WITH_WEBSERVICES", <<>>>> >>
                       ELSE <<>>
          [] i = 11 -> IF on("CONFIG_DISABLE_COM")
                       THEN << <<"VBOX_WITH_MAIN", <<>>>>, <<"VBOX_WITH_QTGUI", <<>>>>,
                               <<"VBOX_WITH_VBOXSDL", <<>>>>, <<"VBOX_WITH_DEBUGGER_GUI", <<>>>> >>
                       ELSE <<>>

\* The number of entries of envTransforms.
cTransforms == 11

\* A rule that stands for the i-th entry of envTransforms.
MainRule(i) == [i |-> i, sIf |-> "", aSets |-> <<>>]

\* The list main hands to EnvManager.transform.
main_envTransforms == [i \in 1..cTransforms |-> MainRule(i)]

\* A rule as a caller may write it after the pattern of main's:
\* 'lambda env: { ... } if g_oEnv[sIf] else {}', aSets being the dict.
IfRule(sIf, aSets) == [i |-> 0, sIf |-> sIf, aSets |-> aSets]

\* exprCur(self.env): the dict a rule returns for a store, as a sequence of
\* <<key, value>> in the order the dict lists them.
exprCur(rule, env) ==
    IF rule.i # 0 THEN envTransforms(rule.i, env)
    ELSE IF Truthy(EnvManager_get(env, rule.sIf)) THEN rule.aSets ELSE <<>>

\* A faulty EnvUpdate: a value is appended to the one the key holds.
RECURSIVE EnvAppendFrom(_, _, _)
EnvAppendFrom(env, aSets, i) ==
    IF i > Len(aSets) THEN env
    ELSE CHOOSE envLast \in {EnvAppendFrom(e, aSets, i + 1) :
                                e \in {EnvManager_append(env, aSets[i][1], aSets[i][2])}} : TRUE

EnvUpdate_appending(env, aSets) ==
    CHOOSE envLast \in {EnvAppendFrom(e, a, 1) : e \in {env}, a \in {aSets}} : TRUE

\* self.env.update(result)
EnvUpdate(env, aSets) == EnvSetAll(env, aSets)

\* A faulty EnvManager.transform: every rule is evaluated against the store
\* as it was when transform was called.
RECURSIVE FrozenFrom(_, _, _, _)
FrozenFrom(env, envFrozen, mapTransform, i) ==
    IF i > Len(mapTransform) THEN env
    ELSE CHOOSE envLast \in {FrozenFrom(e, envFrozen, mapTransform, i + 1) :
                                e \in {EnvUpdate(env, exprCur(mapTransform[i], envFrozen))}} : TRUE

EnvManager_transform_frozen(env, mapTransform, i) ==
    CHOOSE envLast \in {FrozenFrom(e, e, mapTransform, i) : e \in {env}} : TRUE

\* EnvManager.transform over the rules from the i-th on: each rule reads the
\* store the rules before it have left.
RECURSIVE EnvManager_transform(_, _, _)
EnvManager_transform(env, mapTransform, i) ==
    IF i > Len(mapTransform) THEN env
    ELSE CHOOSE envLast \in {EnvManager_transform(e, mapTransform, i + 1) :
                                e \in {EnvUpdate(env, exprCur(mapTransform[i], env))}} : TRUE

(***************************************************************************)
(* The file systems of the model's hosts.                                  *)
(***************************************************************************)
\* The most entries a host holds of those a probe looks for.
MaxHostEntries == 4

\* The vendored directory of a library, as src/libs names it.
VendoredName(sName) ==
    CASE sName = "zlib" -> "zlib-1.3.1"
      [] sName = "xmu" -> "xmu-1.1.4"
      [] sName = "libstdc++" -> "libstdc++-11"

\* The file of a library with a suffix.
LibFileName(sLib, sExt) ==
    CASE sLib = "libz" /\ sExt = ".so" -> "libz.so"
      [] sLib = "libz" /\ sExt = ".a" -> "libz.a"
      [] sLib = "libz" /\ sExt = ".dylib" -> "libz.dylib"
      [] sLib = "libz" /\ sExt = ".lib" -> "libz.lib"
      [] sLib = "libXmu" /\ sExt = ".so" -> "libXmu.so"
      [] sLib = "libXmu" /\ sExt = ".a" -> "libXmu.a"
      [] sLib = "libXmu" /\ sExt = ".lib" -> "libXmu.lib"
      [] sLib = "libXmu" /\ sExt = ".dylib" -> "libXmu.dylib"
      [] sLib = "libXrandr" /\ sExt = ".so" -> "libXrandr.so"
      [] sLib = "libXrandr" /\ sExt = ".a" -> "libXrandr.a"
      [] sLib = "libXrandr" /\ sExt = ".lib" -> "libXrandr.lib"
      [] sLib = "libXrandr" /\ sExt = ".dylib" -> "libXrandr.dylib"
      [] sLib = "libX11" /\ sExt = ".so" -> "libX11.so"
      [] sLib = "libX11" /\ sExt = ".a" -> "libX11.a"
      [] sLib = "libX11" /\ sExt = ".lib" -> "libX11.lib"
      [] sLib = "libX11" /\ sExt = ".dylib" -> "libX11.dylib"

\* The places a host may hold what a library probe looks for: the vendored
\* directory, the system prefix of the host, the in-tree directory and the
\* custom path; 'stray' is a regular file under the name of a directory the
\* library search looks at (/opt/lib on a Linux host); 'prefix' is the
\* directories of further prefixes the searches look at.
Places == {"vendored", "system", "intree", "custom", "stray", "prefix"}

\* The directories of further prefixes a host may hold.
HostPrefixDirs(enmHostTarget, asPlaces) ==
    IF "prefix" \notin asPlaces \/ enmHostTarget = WINDOWS THEN {}
    ELSE {<<"/", "usr", "local", "include">>}
         \cup (IF enmHostTarget = DARWIN THEN {<<"/", "opt", "homebrew", "include">>}
               ELSE {<<"/", "usr", "local", "lib">>})

\* The directories a host may hold that the probe of a library globs for.
HostItemDirs(sName, asPlaces) ==
    IF "vendored" \notin asPlaces THEN {}
    ELSE {g_sScriptPath \o <<"src", "libs", VendoredName(sName)>>}
         \cup (IF sName = "zlib" /\ "intree" \in asPlaces
               THEN {g_sScriptPath \o <<"src", "libs", "zlib-ng">>} ELSE {})

\* The files a host may hold that the probe of a library looks for: the
\* headers and a library below the system prefix of the host, below the
\* in-tree directory and, when the probe has one, below its custom path.
HostItemFiles(self, enmHostTarget, asPlaces) ==
    LET def == LibDef(self.sName)
        asHeaders == SeqToSet(def.asIncFiles \o def.asAltIncFiles)
        sHeader == def.asIncFiles[1]
        asLibs == SeqToSet(def.asLibFiles)
        sSysInc == IF enmHostTarget = WINDOWS THEN <<"C:", "include">>
                   ELSE <<"/", "usr", "include">>
        sSysLib == CASE enmHostTarget = WINDOWS -> <<"C:", "lib">>
                     [] enmHostTarget = DARWIN -> <<"/", "opt", "homebrew", "lib">>
                     [] OTHER -> <<"/", "usr", "lib">>
        sSysExt == CASE enmHostTarget = WINDOWS -> ".lib"
                     [] enmHostTarget = DARWIN -> ".dylib"
                     [] OTHER -> ".so"
    IN  (IF "system" \in asPlaces
         THEN {sSysInc \o h : h \in asHeaders}
              \cup {sSysLib \o <<LibFileName(l, sSysExt)>> : l \in asLibs}
         ELSE {})
        \cup (IF "intree" \in asPlaces
              THEN {InTreePath(self.sName) \o sHeader}
                   \cup {InTreePath(self.sName) \o <<LibFileName(l, ".a")>> : l \in asLibs}
              ELSE {})
        \cup (IF "custom" \in asPlaces /\ self.sCustomPath # NoPath
              THEN {self.sCustomPath \o sHeader, self.sCustomPath \o <<"include">> \o sHeader}
                   \cup {self.sCustomPath \o <<"lib", LibFileName(l, ".a")>> : l \in asLibs}
              ELSE {})
        \cup (IF "stray" \in asPlaces /\ enmHostTarget = LINUX
              THEN {<<"/", "opt", "lib">>} ELSE {})

\* The directories every host holds.
BaseDirs ==
    {<<"/">>, g_sScriptPath, g_sScriptPath \o <<"src">>, g_sScriptPath \o <<"src", "libs">>,
     g_sScriptPath \o <<"include">>}

\* The file system that holds the given directories and files, and every
\* directory above them.
FileSystem(asDirs, asFiles) ==
    [dirs |-> BaseDirs \cup asDirs
              \cup UNION {{SubSeq(p, 1, n) : n \in 1..(Len(p) - 1)} : p \in asDirs \cup asFiles},
     files |-> asFiles]

\* The file systems a probe may meet on a host: at most MaxHostEntries of
\* the entries it looks for, in the given places.
HostFileSystems(self, enmHostTarget, asPlaces) ==
    LET asDirs == HostItemDirs(self.sName, asPlaces) \cup HostPrefixDirs(enmHostTarget, asPlaces)
        asFiles == HostItemFiles(self, enmHostTarget, asPlaces)
    IN  {FileSystem(items \cap asDirs, items \cap asFiles) :
            items \in {i \in SUBSET (asDirs \cup asFiles) : Cardinality(i) <= MaxHostEntries}}

\* What glob.glob returns for src/libs/<name>-*, in each order it may.
VendoredMatches(fs, sName) ==
    Orderings(glob(fs, g_sScriptPath \o <<"src", "libs">>, <<sName, "-">>, <<>>))

(***************************************************************************)
(* The state of a run.                                                     *)
(***************************************************************************)
VARIABLES
    pc,             \* where main is
    host,           \* the host: enmHostTarget, sMachine
    oArgs,          \* the argparse namespace
    g_oEnv,         \* the configuration store
    g_cErrors,      \* the error counter
    g_fContOnErr,   \* continue-on-error mode
    aoTools,        \* the tool probes, by name
    aoLibs,         \* the library probes, by name
    aoToolsToCheck, \* the tool probes main checks, in order
    aoLibsToCheck,  \* the library probes main checks, in order
    iCur,           \* the index of the loop main is in
    aLog,           \* the performCheck calls made so far, in order
    last,           \* what the latest performCheck call did
    asWritten,      \* the output files written: name and lines
    rc              \* the exit status, None while running

vars ==
    <<pc, host, oArgs, g_oEnv, g_cErrors, g_fContOnErr, aoTools, aoLibs,
      aoToolsToCheck, aoLibsToCheck, iCur, aLog, last, asWritten, rc>>

\* The command lines of the runs of the model.
CommandLines ==
    LET opt(sDest) == CHOOSE o \in Options : o[1] = sDest
    IN  { {},
          {opt("config_nofatal"), opt("config_libs_only_zlib")},
          {opt("config_nofatal"), opt("config_libs_only_xmu"), opt("config_libs_only_zlib")},
          {opt("config_libs_disable_zlib"), opt("config_tools_only_java")},
          {opt("config_libs_disable_libstdc++"), opt("config_libs_path_zlib")},
          {opt("config_tools_disable_gcc"), opt("config_libs_only_zlib")},
          {opt("VBOX_OSE=1"), opt("config_libs_only_zlib")},
          {opt("config_build_headless"), opt("config_libs_only_zlib")},
          {opt("config_build_target")} }

\* The places the hosts of a run hold libraries in.
RunPlaces == {"vendored", "system", "custom"}

\* The record kept of a performCheck call: the probe before the call
\* (self), the store before it (env) and what the call left (r).
Observation(sKind, self, env, r, calls, trace, fVendored) ==
    [sKind |-> sKind, sName |-> self.sName, fDisabled |-> self.fDisabled,
     sCustomPath |-> self.sCustomPath, enmTarget |-> KBuildTarget(env),
     fHaveBefore |-> self.fHave, fHave |-> r.self.fHave,
     sVerBefore |-> self.sVer, sVer |-> r.self.sVer,
     asIncPathsBefore |-> IF sKind = "lib" THEN self.asIncPaths ELSE <<>>,
     asIncPaths |-> IF sKind = "lib" THEN r.self.asIncPaths ELSE <<>>,
     asLibPathsBefore |-> IF sKind = "lib" THEN self.asLibPaths ELSE <<>>,
     asLibPaths |-> IF sKind = "lib" THEN r.self.asLibPaths ELSE <<>>,
     fStoreKept |-> r.env = env,
     ret |-> r.ret, cErrors |-> r.cErrors, fRaised |-> r.fRaised, calls |-> calls,
     fInc |-> trace.fInc, fLib |-> trace.fLib, sHarness |-> trace.sHarness,
     asIncSearch |-> trace.asIncSearch, asLibSearch |-> trace.asLibSearch,
     asTempLeft |-> trace.asTempLeft, asNotDirs |-> {},
     asWalkedInc |-> {}, asWalkedLib |-> {}, asLibsMatched |-> {}, asHeaderDirs |-> <<>>,
     aWhich |-> <<>>, fVendored |-> fVendored]

NoObservation ==
    [sKind |-> None, sName |-> None, fDisabled |-> FALSE, sCustomPath |-> NoPath,
     enmTarget |-> None, fHaveBefore |-> None, fHave |-> None, sVerBefore |-> None,
     sVer |-> None, asIncPathsBefore |-> <<>>, asIncPaths |-> <<>>,
     asLibPathsBefore |-> <<>>, asLibPaths |-> <<>>, fStoreKept |-> TRUE,
     ret |-> None, cErrors |-> 0, fRaised |-> FALSE, calls |-> {},
     fInc |-> None, fLib |-> None, sHarness |-> None, asIncSearch |-> <<>>,
     asLibSearch |-> <<>>, asTempLeft |-> {}, asNotDirs |-> {},
     asWalkedInc |-> {}, asWalkedLib |-> {}, asLibsMatched |-> {}, asHeaderDirs |-> <<>>,
     aWhich |-> <<>>, fVendored |-> FALSE]

\* The state when main has parsed the command line.
InitRun ==
    /\ host \in Hosts
    /\ \E asGiven \in CommandLines : oArgs = parse_args(asGiven, host.enmHostTarget)
    /\ g_oEnv = host.asEnviron
    /\ g_cErrors = 0
    /\ g_fContOnErr = FALSE
    /\ aoTools = [sName \in Tools |-> ToolCheck_init(sName)]
    /\ aoLibs = [sName \in Libs |-> LibraryCheck_init(sName)]
    /\ aoToolsToCheck = <<>>
    /\ aoLibsToCheck = <<>>
    /\ iCur = 0
    /\ aLog = <<>>
    /\ last = NoObservation
    /\ asWritten = {}
    /\ rc = None

Init == InitRun /\ pc = "main"

(***************************************************************************)
(* main, up to the probe loops.                                            *)
(***************************************************************************)
\* The defaults main stores before it applies the command line.
main_defaults(env, args, hst) ==
    EnvSetAll(env,
        << <<"KBUILD_HOST", <<hst.enmHostTarget>>>>,
           <<"KBUILD_HOST_ARCH", <<g_enmHostArch(hst.sMachine)>>>>,
           <<"KBUILD_TYPE", <<"release">>>>,
           <<"KBUILD_TARGET", <<hst.enmHostTarget>>>>,
           <<"KBUILD_TARGET_ARCH", <<g_enmHostArch(hst.sMachine)>>>>,
           <<"KBUILD_TARGET_CPU", <<"blend">>>>,
           <<"KBUILD_PATH", args["config_tools_path_kbuild"]>>,
           <<"VBOX_WITH_HARDENING", <<"1">>>>,
           <<"PATH_OUT_BASE", args["config_path_out_base"]>> >>)

\* The store as main leaves it before the OS tool checks: defaults, command
\* line, the OSE decision (fExtPack: the extension pack is in the tree) and
\* the transform rules.
main_store(env, args, hst, fExtPack) ==
    LET env2 == updateFromArgs(main_defaults(env, args, hst), args)
        fOSE == EnvManager_get(env2, "VBOX_OSE") = <<"1">>
        env3 == IF ~fOSE /\ fExtPack THEN EnvManager_set(env2, "VBOX_OSE", <<"1">>) ELSE env2
    IN  EnvManager_transform(env3, main_envTransforms, 1)

\* --build-target and --build-arch store True, and EnvManager.set asserts
\* that it is given a str.
main_raises(args) ==
    ArgTruthy(args["config_build_target"]) \/ ArgTruthy(args["config_build_arch"])

\* A faulty main_libsToCheck: the build target filter is left out.
main_libsToCheck_anyTarget(args, enmTarget) ==
    LET aoOnlyLibs == FilterSeq(g_aoLibs, {n \in Libs : ArgTruthy(args[LibDest("only", n)])})
    IN  IF aoOnlyLibs # <<>> THEN aoOnlyLibs ELSE g_aoLibs

\* aoLibsToCheck: the --only-<lib> filter, then the build target filter.
main_libsToCheck(args, enmTarget) ==
    LET aoOnlyLibs == FilterSeq(g_aoLibs, {n \in Libs : ArgTruthy(args[LibDest("only", n)])})
    IN  FilterSeq(IF aoOnlyLibs # <<>> THEN aoOnlyLibs ELSE g_aoLibs,
                  {n \in Libs : enmTarget \in LibDef(n).aeTargets \/ ANY \in LibDef(n).aeTargets})

\* aoToolsToCheck
main_toolsToCheck(args, enmTarget) ==
    LET aoOnlyTools == FilterSeq(g_aoTools, {n \in Tools : ArgTruthy(args[ToolDest("only", n)])})
    IN  FilterSeq(IF aoOnlyTools # <<>> THEN aoOnlyTools ELSE g_aoTools,
                  {n \in Tools : enmTarget \in ToolDef(n).aeTargets \/ ANY \in ToolDef(n).aeTargets})

\* aOsTools: the OS tools of a target.
aOsTools(enmTarget) ==
    CASE enmTarget = LINUX -> <<"pkg-config", "gcc", "make">>
      [] enmTarget = DARWIN -> <<"clang", "make", "brew">>
      [] enmTarget = SOLARIS -> <<"pkg-config", "cc", "gmake">>
      [] OTHER -> <<>>

\* Where main goes when it is about to write the output files.
WriteGate(cErrors, fContOnErr) ==
    IF cErrors = 0 \/ fContOnErr THEN "write_autoconfig" ELSE "exit"

\* A faulty LibsGate: the library loop is entered whatever the error count.
LibsGate_anyCount(cErrors, fContOnErr, asLibs) ==
    IF asLibs # <<>> THEN "libs" ELSE WriteGate(cErrors, fContOnErr)

\* Where main goes when it is about to check the libraries.
LibsGate(cErrors, fContOnErr, asLibs) ==
    IF (cErrors = 0 \/ fContOnErr) /\ asLibs # <<>> THEN "libs"
    ELSE WriteGate(cErrors, fContOnErr)

\* Where main goes when it is about to check the tools.
ToolsGate(cErrors, fContOnErr, asTools, asLibs) ==
    IF (cErrors = 0 \/ fContOnErr) /\ asTools # <<>> THEN "tools"
    ELSE LibsGate(cErrors, fContOnErr, asLibs)

\* main from the parsed command line to the OS tool checks.
main_setup ==
    /\ pc = "main"
    /\ LET env == main_store(g_oEnv, oArgs, host, host.fExtPack)
           fCont == ArgTruthy(oArgs["config_nofatal"])
           enmTarget == KBuildTarget(env)
           asTools == main_toolsToCheck(oArgs, enmTarget)
           asLibs == main_libsToCheck(oArgs, enmTarget)
       IN  /\ g_fContOnErr' = fCont
           /\ IF main_raises(oArgs)
              THEN /\ pc' = "crashed"
                   /\ rc' = "1"
                   /\ g_oEnv' = EnvSetAll(g_oEnv,
                                    << <<"KBUILD_HOST", <<host.enmHostTarget>>>>,
                                       <<"KBUILD_HOST_ARCH", <<g_enmHostArch(host.sMachine)>>>>,
                                       <<"KBUILD_TYPE", <<"release">>>> >>
                                    \o (IF ArgTruthy(oArgs["config_build_target"]) THEN <<>>
                                        ELSE << <<"KBUILD_TARGET", <<host.enmHostTarget>>>> >>))
                   /\ UNCHANGED <<aoToolsToCheck, aoLibsToCheck, iCur>>
              ELSE /\ g_oEnv' = env
                   /\ aoToolsToCheck' = asTools
                   /\ aoLibsToCheck' = asLibs
                   /\ iCur' = 1
                   /\ pc' = IF aOsTools(enmTarget) # <<>> THEN "ostools"
                            ELSE ToolsGate(g_cErrors, fCont, asTools, asLibs)
                   /\ rc' = rc
    /\ UNCHANGED <<host, oArgs, g_cErrors, aoTools, aoLibs, aLog, last, asWritten>>

\* One round of the OS tool loop: a checkWhich call.
main_checkOsTool ==
    /\ pc = "ostools"
    /\ \E o \in WhichOutcomes(aOsTools(KBuildTarget(g_oEnv))[iCur]) :
         LET asBinaries == aOsTools(KBuildTarget(g_oEnv))
             r == checkWhich(asBinaries[iCur], NoPath, host.enmHostTarget, o)
         IN  /\ g_cErrors' = g_cErrors + r.cErrors
             /\ IF r.fRaised
                THEN pc' = "crashed" /\ rc' = "1" /\ iCur' = iCur
                ELSE IF iCur < Len(asBinaries)
                THEN pc' = pc /\ rc' = rc /\ iCur' = iCur + 1
                ELSE /\ pc' = ToolsGate(g_cErrors', g_fContOnErr, aoToolsToCheck, aoLibsToCheck)
                     /\ rc' = rc
                     /\ iCur' = 1
    /\ UNCHANGED <<host, oArgs, g_oEnv, g_fContOnErr, aoTools, aoLibs, aoToolsToCheck,
                   aoLibsToCheck, aLog, last, asWritten>>

(***************************************************************************)
(* The probe loops.                                                        *)
(***************************************************************************)
\* A harness outcome standing for all of them where the harness is not run.
NoHarness == [kind |-> "run_ok", out |-> <<>>, asDenied |-> {}]

\* oToolCur.setArgs(oArgs) and oToolCur.performCheck() on the host as it is.
InvokeTool(sName) ==
    \E self \in {ToolCheck_setArgs(aoTools[sName], oArgs)}, o \in ToolHost(sName) :
      \E r \in {ToolCheck_performCheck(self, g_oEnv, host.enmHostTarget, host.sMachine, o)} :
        /\ aoTools' = [aoTools EXCEPT ![sName] = r.self]
        /\ g_oEnv' = r.env
        /\ g_cErrors' = g_cErrors + r.cErrors
        /\ aLog' = Append(aLog, [sName |-> sName, ret |-> r.ret, cErrors |-> r.cErrors,
                                 fRaised |-> r.fRaised, sHarness |-> None])
        /\ last' = [Observation("tool", self, g_oEnv, r, r.calls, NoTrace, FALSE)
                       EXCEPT !.aWhich = IF "checkWhich" \in r.calls THEN o.aWhich ELSE <<>>]

\* The paths the search lists of a call returned that are no directories of
\* the file system.
SearchedNotDirs(fs, trace) ==
    {sPath \in SeqToSet(trace.asIncSearch \o trace.asLibSearch) : ~isdir(fs, sPath)}

\* The directories an os.walk of sTop yields whose file names hold one of
\* the names: the roots the searches put in front of their lists.
WalkedDirs(fs, sTop, asNames) ==
    IF sTop = NoPath \/ ~isdir(fs, sTop) THEN {}
    ELSE {d \in fs.dirs :
            /\ IsPrefix(sTop, d)
            /\ \E f \in fs.files, i \in DOMAIN asNames :
                 /\ Len(f) = Len(d) + 1
                 /\ SubSeq(f, 1, Len(d)) = d
                 /\ asNames[i] = <<f[Len(f)]>>}

\* For every header checkInc looks for, in its order, the directories of
\* the file system that hold it.
HeaderDirs(fs, sName) ==
    LET asHeaderToSearch == LibDef(sName).asIncFiles \o LibDef(sName).asAltIncFiles
    IN  [i \in DOMAIN asHeaderToSearch |->
            {d \in fs.dirs : isfile(fs, d \o asHeaderToSearch[i])}]

\* oLibCur.setArgs(oArgs) and oLibCur.performCheck() on a host that holds
\* libraries in the given places.  The harness outcome is drawn when the
\* call gets to the harness.
InvokeLibrary(sName, asPlaces) ==
    \E self \in {LibraryCheck_setArgs(aoLibs[sName], oArgs)} :
      \E fs \in HostFileSystems(self, host.enmHostTarget, asPlaces) :
        \E asPatternMatches \in VendoredMatches(fs, sName),
           asWalk \in WalkOrders(fs, self.sCustomPath) :
          \E r0 \in {LibraryCheck_performCheck(self, g_oEnv, fs, host.sMachine,
                                                asPatternMatches, asWalk, NoHarness)} :
            \E h \in (IF r0.trace.sHarness \in HarnessKinds
                      THEN HarnessOutcomes(sName) ELSE {NoHarness}) :
              \E r \in {IF h = NoHarness THEN r0
                         ELSE LibraryCheck_performCheck(self, g_oEnv, fs, host.sMachine,
                                                        asPatternMatches, asWalk, h)} :
                /\ aoLibs' = [aoLibs EXCEPT ![sName] = r.self]
                /\ g_oEnv' = r.env
                /\ g_cErrors' = g_cErrors + r.cErrors
                /\ aLog' = Append(aLog, [sName |-> sName, ret |-> r.ret,
                                         cErrors |-> r.cErrors, fRaised |-> r.fRaised,
                                         sHarness |-> r.trace.sHarness])
                /\ last' = [Observation("lib", self, g_oEnv, r, r.trace.calls, r.trace,
                                        asPatternMatches # <<>>)
                               EXCEPT !.asNotDirs = SearchedNotDirs(fs, r.trace),
                                      !.asHeaderDirs =
                                          IF "getIncSearchPaths" \in r.trace.calls
                                          THEN HeaderDirs(fs, sName) ELSE <<>>,
                                      !.asWalkedInc =
                                          IF "getIncSearchPaths" \in r.trace.calls
                                          THEN WalkedDirs(fs, self.sCustomPath,
                                                          LibDef(sName).asIncFiles)
                                          ELSE {},
                                      !.asWalkedLib =
                                          IF "getLibSearchPaths" \in r.trace.calls
                                          THEN WalkedDirs(fs, self.sCustomPath,
                                                          [i \in DOMAIN LibDef(sName).asLibFiles |->
                                                              <<LibDef(sName).asLibFiles[i]>>])
                                          ELSE {}]

\* One round of the tool loop.
main_checkTool ==
    /\ pc = "tools"
    /\ InvokeTool(aoToolsToCheck[iCur])
    /\ IF last'.fRaised
       THEN pc' = "crashed" /\ rc' = "1" /\ iCur' = iCur
       ELSE IF (last'.ret # "True" /\ ~g_fContOnErr) \/ iCur = Len(aoToolsToCheck)
       THEN /\ pc' = LibsGate(g_cErrors', g_fContOnErr, aoLibsToCheck)
            /\ rc' = rc
            /\ iCur' = 1
       ELSE pc' = pc /\ rc' = rc /\ iCur' = iCur + 1
    /\ UNCHANGED <<host, oArgs, g_fContOnErr, aoLibs, aoToolsToCheck, aoLibsToCheck, asWritten>>

\* One round of the library loop.
main_checkLibrary ==
    /\ pc = "libs"
    /\ InvokeLibrary(aoLibsToCheck[iCur], RunPlaces)
    /\ IF last'.fRaised
       THEN pc' = "crashed" /\ rc' = "1" /\ iCur' = iCur
       ELSE IF (last'.ret # "True" /\ ~g_fContOnErr) \/ iCur = Len(aoLibsToCheck)
       THEN /\ pc' = WriteGate(g_cErrors', g_fContOnErr)
            /\ rc' = rc
            /\ iCur' = 1
       ELSE pc' = pc /\ rc' = rc /\ iCur' = iCur + 1
    /\ UNCHANGED <<host, oArgs, g_fContOnErr, aoTools, aoToolsToCheck, aoLibsToCheck, asWritten>>

(***************************************************************************)
(* The writers and the exit status.                                        *)
(***************************************************************************)
\* sVarBase of write_autoconfig_kmk: the name in upper case, '+' replaced
\* by PLUS and '-' by '_'.
sVarBase(sName) ==
    CASE sName = "libstdc++" -> "LIBSTDCPLUSPLUS"
      [] sName = "xmu" -> "XMU"
      [] sName = "zlib" -> "ZLIB"

\* A faulty sEnabled: 1 unless the library is Absent.
sEnabled_notAbsent(oLibCur) == IF oLibCur.fHave # "False" THEN <<"1">> ELSE <<>>

\* sEnabled of write_autoconfig_kmk: '1' if oLibCur.fHave else ''.
sEnabled(oLibCur) == IF oLibCur.fHave = "True" THEN <<"1">> ELSE <<>>

\* The lines write_autoconfig_kmk writes for the libraries, as pairs of a
\* variable and its value: the flag of every entry of g_aoLibs, and the
\* first library and include path of an entry that is there.
write_autoconfig_kmk(aoLibsAll) ==
    {<<"VBOX_WITH_" \o sVarBase(n), sEnabled(aoLibsAll[n])>> : n \in Libs}
    \cup {<<"SDK_" \o sVarBase(n) \o "_LIBS", aoLibsAll[n].asLibPaths[1]>> :
              n \in {l \in Libs : aoLibsAll[l].fHave = "True" /\ aoLibsAll[l].asLibPaths # <<>>}}
    \cup {<<"SDK_" \o sVarBase(n) \o "_INCS", aoLibsAll[n].asIncPaths[1]>> :
              n \in {l \in Libs : aoLibsAll[l].fHave = "True" /\ aoLibsAll[l].asIncPaths # <<>>}}

\* write_autoconfig_kmk: fOpened is whether open() succeeds; an OSError is
\* counted and keeps write_env from being called.  aEnvLines are the lines
\* of oEnv.write_all, aLines those of the loop over the libraries.
main_writeAutoconfig ==
    /\ pc = "write_autoconfig"
    /\ \E fOpened \in BOOLEAN :
         IF fOpened
         THEN /\ asWritten' = asWritten \cup {[sFile |-> oArgs["config_file_autoconfig"],
                                               aLines |-> write_autoconfig_kmk(aoLibs),
                                               aEnvLines |->
                                                   EnvManager_write_all(
                                                       g_oEnv, <<"VBOX_", "PATH_TOOL_">>, <<>>)]}
              /\ g_cErrors' = g_cErrors
              /\ pc' = "write_env"
         ELSE /\ asWritten' = asWritten
              /\ g_cErrors' = g_cErrors + 1
              /\ pc' = "exit"
    /\ UNCHANGED <<host, oArgs, g_oEnv, g_fContOnErr, aoTools, aoLibs, aoToolsToCheck,
                   aoLibsToCheck, iCur, aLog, last, rc>>

\* write_env: the kBuild binaries are put on PATH, and os.path.join raises
\* TypeError when KBUILD_PATH is not in the store.
main_writeEnv ==
    /\ pc = "write_env"
    /\ \E fOpened \in BOOLEAN :
         LET sKBuildPath == EnvManager_get(g_oEnv, "KBUILD_PATH")
             sBinPath == g_sScriptPath \o sKBuildPath
                         \o <<"bin", host.enmHostTarget, ".", g_enmHostArch(host.sMachine)>>
         IN  IF ~fOpened
             THEN /\ g_cErrors' = g_cErrors + 1
                  /\ pc' = "exit"
                  /\ UNCHANGED <<asWritten, g_oEnv, rc>>
             ELSE /\ asWritten' = asWritten \cup {[sFile |-> oArgs["config_file_env"],
                                                   aLines |-> {}, aEnvLines |-> <<>>]}
                  /\ g_cErrors' = g_cErrors
                  /\ IF sKBuildPath = EnvNone
                     THEN pc' = "crashed" /\ rc' = "1" /\ g_oEnv' = g_oEnv
                     ELSE /\ pc' = "exit"
                          /\ rc' = rc
                          /\ g_oEnv' = EnvManager_prependPath(g_oEnv, "PATH", sBinPath,
                                                              host.enmHostTarget)
    /\ UNCHANGED <<host, oArgs, g_fContOnErr, aoTools, aoLibs, aoToolsToCheck,
                   aoLibsToCheck, iCur, aLog, last>>

\* A faulty main_exit: the status is 0 whatever the error count.
main_exit_zero ==
    /\ pc = "exit"
    /\ pc' = "done"
    /\ rc' = "0"
    /\ UNCHANGED <<host, oArgs, g_oEnv, g_cErrors, g_fContOnErr, aoTools, aoLibs,
                   aoToolsToCheck, aoLibsToCheck, iCur, aLog, last, asWritten>>

\* return 0 if g_cErrors == 0 else 1
main_exit ==
    /\ pc = "exit"
    /\ pc' = "done"
    /\ rc' = IF g_cErrors = 0 THEN "0" ELSE "1"
    /\ UNCHANGED <<host, oArgs, g_oEnv, g_cErrors, g_fContOnErr, aoTools, aoLibs,
                   aoToolsToCheck, aoLibsToCheck, iCur, aLog, last, asWritten>>

Next ==
    \/ main_setup
    \/ main_checkOsTool
    \/ main_checkTool
    \/ main_checkLibrary
    \/ main_writeAutoconfig
    \/ main_writeEnv
    \/ main_exit

\* A run of the script.
Spec == Init /\ [][Next]_vars

(***************************************************************************)
(* One call of performCheck on any probe, as a caller other than main's    *)
(* loops may make it: main filters the probes by target before it calls.   *)
(***************************************************************************)
\* The command lines of the calls.
UnitCommandLines ==
    LET opt(sDest) == CHOOSE o \in Options : o[1] = sDest
    IN  { {},
          {opt("config_libs_path_zlib")},
          {opt("config_libs_disable_zlib"), opt("config_tools_disable_gcc")} }

\* What the host answers to the tool probe that stores the compilers when
\* it finds them.
CompilerToolFound(sName) ==
    IF sName = "gcc"
    THEN [aWhich |-> << [kind |-> "version", ver |-> "13.1.0"],
                        [kind |-> "version", ver |-> "13.1.0"] >>, sFound |-> "none"]
    ELSE [aWhich |-> <<>>, sFound |-> "default"]

\* The stores a call may meet: the store when main has applied the command
\* line, and that store once the tool probe of the host's compiler (gcc,
\* Visual C++; none on Darwin) has stored the compilers.
UnitStores(hst, args) ==
    LET env == main_store(hst.asEnviron, args, hst, hst.fExtPack)
        sTool == CASE hst.enmHostTarget = LINUX -> "gcc"
                   [] hst.enmHostTarget = WINDOWS -> "visualcpp"
                   [] OTHER -> None
    IN  {env} \cup (IF sTool = None THEN {}
                    ELSE {ToolCheck_performCheck(ToolCheck_init(sTool), e, hst.enmHostTarget,
                                                 hst.sMachine, CompilerToolFound(sTool)).env :
                             e \in {env}})

InitUnit ==
    /\ host \in Hosts
    /\ \E asGiven \in UnitCommandLines : oArgs = parse_args(asGiven, host.enmHostTarget)
    /\ g_oEnv \in UnitStores(host, oArgs)
    /\ g_cErrors = 0
    /\ g_fContOnErr = FALSE
    /\ aoTools = [sName \in Tools |-> ToolCheck_init(sName)]
    /\ aoLibs = [sName \in Libs |-> LibraryCheck_init(sName)]
    /\ aoToolsToCheck = <<>>
    /\ aoLibsToCheck = <<>>
    /\ iCur = 0
    /\ aLog = <<>>
    /\ last = NoObservation
    /\ asWritten = {}
    /\ rc = None
    /\ pc = "unit"

\* setArgs and performCheck of a tool probe.
unit_ToolCheck ==
    /\ pc = "unit"
    /\ \E sName \in Tools : InvokeTool(sName)
    /\ pc' = IF last'.fRaised THEN "raised" ELSE "returned"
    /\ UNCHANGED <<host, oArgs, g_fContOnErr, aoLibs, aoToolsToCheck, aoLibsToCheck, iCur,
                   asWritten, rc>>

\* setArgs and performCheck of a library probe.
unit_LibraryCheck ==
    /\ pc = "unit"
    /\ \E sName \in Libs : InvokeLibrary(sName, Places)
    /\ pc' = IF last'.fRaised THEN "raised" ELSE "returned"
    /\ UNCHANGED <<host, oArgs, g_fContOnErr, aoTools, aoToolsToCheck, aoLibsToCheck, iCur,
                   asWritten, rc>>

\* setArgs and performCheck of a library probe, and both once more on the
\* probe and the store as the first call left them, the host answering the
\* second call as it answered the first.
unit_LibraryCheckAgain ==
    /\ pc = "unit"
    /\ \E sName \in Libs :
         \E self \in {LibraryCheck_setArgs(aoLibs[sName], oArgs)} :
           \E fs \in HostFileSystems(self, host.enmHostTarget, Places) :
             \E asPatternMatches \in VendoredMatches(fs, sName),
                asWalk \in WalkOrders(fs, self.sCustomPath) :
               \E r0 \in {LibraryCheck_performCheck(self, g_oEnv, fs, host.sMachine,
                                                     asPatternMatches, asWalk, NoHarness)} :
                 \E h \in (IF r0.trace.sHarness \in HarnessKinds
                           THEN HarnessOutcomes(sName) ELSE {NoHarness}) :
                   \E r1 \in {IF h = NoHarness THEN r0
                               ELSE LibraryCheck_performCheck(self, g_oEnv, fs, host.sMachine,
                                                              asPatternMatches, asWalk, h)} :
                     /\ ~r1.fRaised
                     /\ \E self2 \in {LibraryCheck_setArgs(r1.self, oArgs)} :
                          \E r2 \in {LibraryCheck_performCheck(self2, r1.env, fs, host.sMachine,
                                                                asPatternMatches, asWalk, h)} :
                            /\ aoLibs' = [aoLibs EXCEPT ![sName] = r2.self]
                            /\ g_oEnv' = r2.env
                            /\ g_cErrors' = g_cErrors + r1.cErrors + r2.cErrors
                            /\ aLog' = <<[sName |-> sName, ret |-> r1.ret, cErrors |-> r1.cErrors,
                                          fRaised |-> r1.fRaised, sHarness |-> r1.trace.sHarness],
                                         [sName |-> sName, ret |-> r2.ret, cErrors |-> r2.cErrors,
                                          fRaised |-> r2.fRaised, sHarness |-> r2.trace.sHarness]>>
                            /\ last' = Observation("lib", self2, r1.env, r2, r2.trace.calls,
                                                   r2.trace, asPatternMatches # <<>>)
    /\ pc' = "again"
    /\ UNCHANGED <<host, oArgs, g_fContOnErr, aoTools, aoToolsToCheck, aoLibsToCheck, iCur,
                   asWritten, rc>>

\* The entries of g_aoLibs with several libraries that checkLib is called
\* on by itself.
SeveralLibs == {"xrandr"}

\* The declared libraries a file of some search path matches.
MatchedLibs(fs, asSearchPaths, asLibToSearch, asExts) ==
    {asLibToSearch[i] : i \in {k \in DOMAIN asLibToSearch :
                                 \E n \in DOMAIN asSearchPaths :
                                     HoldsLibrary(fs, asSearchPaths[n], <<asLibToSearch[k]>>,
                                                  asExts)}}

\* checkLib of a probe as constructed, on a host that holds its libraries
\* in the given places.
unit_checkLib ==
    /\ pc = "unit"
    /\ \E sName \in SeveralLibs :
         \E self \in {LibraryCheck_init(sName)} :
           \E fs \in HostFileSystems(self, host.enmHostTarget, {"system", "intree", "prefix"}) :
             \E r \in {checkLib(self, g_oEnv, fs, host.sMachine, <<>>)} :
               /\ g_cErrors' = g_cErrors + r.cErrors
               /\ last' = [NoObservation EXCEPT
                              !.sKind = "checkLib", !.sName = sName,
                              !.enmTarget = KBuildTarget(g_oEnv),
                              !.fLib = IF r.fRaised THEN None
                                       ELSE IF r.fRet THEN "True" ELSE "False",
                              !.cErrors = r.cErrors, !.fRaised = r.fRaised,
                              !.asLibSearch = r.asSearchPaths,
                              !.asLibPaths = r.asLibPaths,
                              !.asLibsMatched =
                                  MatchedLibs(fs, r.asSearchPaths, LibDef(sName).asLibFiles,
                                              asLibExts(KBuildTarget(g_oEnv)))]
    /\ pc' = "checked"
    /\ UNCHANGED <<host, oArgs, g_oEnv, g_fContOnErr, aoTools, aoLibs, aoToolsToCheck,
                   aoLibsToCheck, iCur, aLog, asWritten, rc>>

\* performCheck of the tool probe python_c_api as constructed.
unit_PythonC_API ==
    /\ pc = "unit"
    /\ \E self \in {ToolCheck_init("python_c_api")},
          o \in PythonHosts(host.enmHostTarget) :
         \E r \in {ToolCheck_performCheck_PythonC_API(self, g_oEnv, host.enmHostTarget, o)} :
           /\ g_oEnv' = r.env
           /\ g_cErrors' = g_cErrors + r.cErrors
           /\ last' = [Observation("tool", self, g_oEnv, r, r.calls, NoTrace, FALSE)
                          EXCEPT !.sHarness =
                                     IF PythonC_API_harnessed(host.enmHostTarget, o)
                                     THEN o.h.kind ELSE None]
    /\ pc' = "checked"
    /\ UNCHANGED <<host, oArgs, g_fContOnErr, aoTools, aoLibs, aoToolsToCheck,
                   aoLibsToCheck, iCur, aLog, asWritten, rc>>

NextUnit ==
    \/ unit_ToolCheck
    \/ unit_LibraryCheck
    \/ unit_LibraryCheckAgain
    \/ unit_checkLib
    \/ unit_PythonC_API

\* One call of performCheck.
SpecUnit == InitUnit /\ [][NextUnit]_vars

(***************************************************************************)
(* The compile test harness on its own: one call of compileAndExecute on   *)
(* a store, a target and a header list, the host answering the two         *)
(* subprocess.run calls.                                                   *)
(***************************************************************************)
\* The targets of the calls.
HarnessTargets == {LINUX, DARWIN, WINDOWS}

\* The header lists of the calls: none, C headers, and headers with a mark
\* of C++ in their name.
HarnessHeaders ==
    { <<>>,
      << <<"zlib.h">> >>,
      << <<"X11", "Xmu", "Xmu.h">>, <<"zlib.h">> >>,
      << <<"c++", "11", "iostream">> >>,
      << <<"Qt", "Core", "qconfig.h">> >> }

\* The stores of the calls: no compiler stored, gcc's, Visual C++'s.
HarnessStores ==
    { <<>>,
      EnvSetAll(<<>>, << <<"config_c_compiler", <<"gcc">>>>,
                         <<"config_cpp_compiler", <<"g++">>>> >>),
      EnvSetAll(<<>>, << <<"config_c_compiler", <<"cl.exe">>>>,
                         <<"config_cpp_compiler", <<"cl.exe">>>> >>) }

\* The include and library paths of the calls: one include path and no
\* library path, and two include paths with one library path.
HarnessPaths ==
    { [asIncPaths |-> << <<"/", "usr", "include">> >>, asLibPaths |-> <<>>],
      [asIncPaths |-> << <<"C:", "vcpkg", "include">>, <<"C:", "sdk", "include">> >>,
       asLibPaths |-> << <<"C:", "vcpkg", "lib">> >>] }

\* What subprocess.run of the compiler comes to, and of the test program.
CompileAnswers == {"exit0", "exit1", "timeout", "notfound", "permission", "oserror"}

RunAnswers == {"exit0", "exit1", "timeout"}

\* What the test program prints, and the white space before and after it.
PrintedTexts == {<<>>, <<"1.3.1">>, <<"1.3", " ", "1">>}

PrintedAround == {<<>>, <<"\n", " ">>, <<"\r\n">>}

\* A faulty HarnessOf: the test program is run whatever the compiler
\* exited with.
HarnessOf_runAlways(ans) ==
    [kind |-> CASE ans.run = "exit0" -> "run_ok"
                [] ans.run = "exit1" -> "run_fail"
                [] ans.run = "timeout" -> "run_timeout",
     out |-> ans.out, asDenied |-> {}]

\* The two subprocess.run calls of compileAndExecute: the test program is
\* run only when the compiler returned with exit status 0.
HarnessOf(ans) ==
    [kind |-> IF ans.compile = "exit0"
              THEN CASE ans.run = "exit0" -> "run_ok"
                     [] ans.run = "exit1" -> "run_fail"
                     [] ans.run = "timeout" -> "run_timeout"
              ELSE CASE ans.compile = "exit1" -> "compile_fail"
                     [] ans.compile = "timeout" -> "compile_timeout"
                     [] ans.compile = "notfound" -> "compile_notfound"
                     [] ans.compile = "permission" -> "compile_permission"
                     [] ans.compile = "oserror" -> "compile_oserror",
     out |-> IF ans.compile = "exit0" THEN ans.out ELSE <<>>,
     asDenied |-> {}]

\* The processes a call started.
compileAndExecute_asProcs(r) ==
    IF r.sHarness = "raised" THEN <<>>
    ELSE IF r.sHarness \in {"run_ok", "run_fail", "run_timeout"} THEN <<"compile", "run">>
    ELSE <<"compile">>

InitHarness ==
    /\ host \in {h \in Hosts : h.sMachine = "x86_64" /\ h.asEnviron = <<>> /\ ~h.fExtPack}
    /\ oArgs = parse_args({}, host.enmHostTarget)
    /\ g_oEnv \in HarnessStores
    /\ g_cErrors = 0
    /\ g_fContOnErr = FALSE
    /\ aoTools = [sName \in Tools |-> ToolCheck_init(sName)]
    /\ aoLibs = [sName \in Libs |-> LibraryCheck_init(sName)]
    /\ aoToolsToCheck = <<>>
    /\ aoLibsToCheck = <<>>
    /\ iCur = 0
    /\ aLog = <<>>
    /\ last = [sOp |-> None]
    /\ asWritten = {}
    /\ rc = None
    /\ pc = "harness"

\* One call of compileAndExecute.
harness_compileAndExecute ==
    /\ pc = "harness"
    /\ \E enmBuildTarget \in HarnessTargets, asIncFiles \in HarnessHeaders, fLog \in BOOLEAN,
          aPaths \in HarnessPaths, sCompile \in CompileAnswers, sRun \in RunAnswers,
          asText \in PrintedTexts, asBefore \in PrintedAround, asAfter \in PrintedAround :
         \E ans \in {[compile |-> sCompile, run |-> sRun, out |-> asBefore \o asText \o asAfter]} :
           \E r \in {compileAndExecute(g_oEnv, enmBuildTarget, aPaths.asIncPaths,
                                       aPaths.asLibPaths, asIncFiles, fLog, HarnessOf(ans))} :
             /\ g_oEnv' = r.env
             /\ g_cErrors' = g_cErrors + r.cErrors
             /\ last' = [sOp |-> "compileAndExecute", enmBuildTarget |-> enmBuildTarget,
                         asIncFiles |-> asIncFiles, ans |-> ans, asText |-> asText,
                         sCC |-> EnvManager_get(g_oEnv, "config_c_compiler"),
                         sCXX |-> EnvManager_get(g_oEnv, "config_cpp_compiler"),
                         sCompiler |-> r.sCompiler, fRet |-> r.fRet, sStdOut |-> r.sStdOut,
                         fRaised |-> r.fRaised, sHarness |-> r.sHarness,
                         fTempDirLeft |-> r.fTempDirLeft, envBefore |-> g_oEnv,
                         asIncPaths |-> aPaths.asIncPaths, asLibPaths |-> aPaths.asLibPaths,
                         asProcs |-> compileAndExecute_asProcs(r)]
    /\ pc' = "harness_done"
    /\ UNCHANGED <<host, oArgs, g_fContOnErr, aoTools, aoLibs, aoToolsToCheck, aoLibsToCheck,
                   iCur, aLog, asWritten, rc>>

NextHarness == harness_compileAndExecute

\* One call of the harness.
SpecHarness == InitHarness /\ [][NextHarness]_vars

(***************************************************************************)
(* The store on its own: main's set-up of it, and the EnvManager methods   *)
(* as any caller may use them.                                             *)
(***************************************************************************)
\* The most store operations of a behaviour.
MaxStoreOps == 2

\* The command lines the store is set up from.
StoreCommandLines ==
    LET opt(sDest) == CHOOSE o \in Options : o[1] = sDest
    IN  { {},
          {opt("config_build_headless")},
          {opt("config_libs_disable_libvpx"), opt("config_disable_com")},
          {opt("VBOX_WITH_DOCS="), opt("VBOX_OSE=1")} }

\* The hosts the store is set up on.
StoreHosts == {h \in Hosts : h.sMachine = "x86_64" /\ h.enmHostTarget \in {LINUX, WINDOWS}
                             /\ h.asEnviron # <<>>}

\* The keys and the values the callers of the model use.
StoreKeys == {"CONFIG_BUILD_HEADLESS", "VBOX_WITH_HEADLESS", "VBOX_WITH_QTGUI"}
StoreValues == {EnvNone, <<>>, <<"1">>, <<"C:", "\\", "VBox">>}

\* Rule lists a caller may hand to EnvManager.transform beside main's: the
\* second rule of the first list reads a key the first rule writes, and
\* both write VBOX_WITH_QTGUI.
RuleLists ==
    LET ruleHeadless ==
            IfRule("CONFIG_BUILD_HEADLESS",
                   << <<"VBOX_WITH_HEADLESS", <<"1">>>>, <<"VBOX_WITH_QTGUI", <<>>>> >>)
        ruleGui == IfRule("VBOX_WITH_HEADLESS", << <<"VBOX_WITH_QTGUI", <<"1">>>> >>)
    IN  {main_envTransforms, <<ruleHeadless, ruleGui>>, <<ruleGui, ruleHeadless>>}

\* The record kept of a store operation.
StoreOp(sOp, envBefore, mapTransform) ==
    [sOp |-> sOp, envBefore |-> envBefore, mapTransform |-> mapTransform,
     asPrefixInclude |-> <<>>, asPrefixExclude |-> <<>>, aLines |-> <<>>]

\* The prefix filters a caller hands to write_all: those of
\* write_autoconfig_kmk, none, and an exclusion.
WriteFilters ==
    { << <<"VBOX_", "PATH_TOOL_">>, <<>> >>,
      << <<>>, <<>> >>,
      << <<>>, <<"KBUILD_">> >>,
      << <<"VBOX_">>, <<"VBOX_">> >> }

InitStore ==
    /\ host \in StoreHosts
    /\ \E asGiven \in StoreCommandLines : oArgs = parse_args(asGiven, host.enmHostTarget)
    /\ g_oEnv = host.asEnviron
    /\ g_cErrors = 0
    /\ g_fContOnErr = FALSE
    /\ aoTools = [sName \in Tools |-> ToolCheck_init(sName)]
    /\ aoLibs = [sName \in Libs |-> LibraryCheck_init(sName)]
    /\ aoToolsToCheck = <<>>
    /\ aoLibsToCheck = <<>>
    /\ iCur = 0
    /\ aLog = <<>>
    /\ last = StoreOp(None, <<>>, <<>>)
    /\ asWritten = {}
    /\ rc = None
    /\ pc = "store"

\* What a store operation leaves alone, and what it records.
StoreStep(sOp, mapTransform) ==
    /\ pc = "store"
    /\ iCur < MaxStoreOps
    /\ iCur' = iCur + 1
    /\ last' = StoreOp(sOp, g_oEnv, mapTransform)
    /\ UNCHANGED <<pc, host, oArgs, g_cErrors, g_fContOnErr, aoTools, aoLibs, aoToolsToCheck,
                   aoLibsToCheck, aLog, asWritten, rc>>

\* main from the defaults to g_oEnv.transform(envTransforms), on the store
\* as EnvManager.__init__ left it.
store_main ==
    /\ iCur = 0
    /\ ~main_raises(oArgs)
    /\ g_oEnv' = main_store(g_oEnv, oArgs, host, host.fExtPack)
    /\ StoreStep("main", main_envTransforms)

\* g_oEnv.set(sKey, sVal)
store_set ==
    /\ \E sKey \in StoreKeys, sVal \in StoreValues :
         g_oEnv' = EnvManager_set(g_oEnv, sKey, sVal)
    /\ StoreStep("set", <<>>)

\* g_oEnv.unset(sKey)
store_unset ==
    /\ \E sKey \in StoreKeys : g_oEnv' = EnvManager_unset(g_oEnv, sKey)
    /\ StoreStep("unset", <<>>)

\* g_oEnv.append(sKey, sVal) with a string
store_append ==
    /\ \E sKey \in StoreKeys, sVal \in StoreValues \ {EnvNone} :
         g_oEnv' = EnvManager_append(g_oEnv, sKey, sVal)
    /\ StoreStep("append", <<>>)

\* g_oEnv.prependPath(sKey, sPath)
store_prependPath ==
    /\ \E sKey \in StoreKeys, sPath \in StoreValues :
         g_oEnv' = EnvManager_prependPath(g_oEnv, sKey, sPath, host.enmHostTarget)
    /\ StoreStep("prependPath", <<>>)

\* g_oEnv.updateFromArgs(oArgs)
store_updateFromArgs ==
    /\ g_oEnv' = updateFromArgs(g_oEnv, oArgs)
    /\ StoreStep("updateFromArgs", <<>>)

\* g_oEnv.transform(mapTransform)
store_transform ==
    \E mapTransform \in RuleLists :
        /\ g_oEnv' = EnvManager_transform(g_oEnv, mapTransform, 1)
        /\ StoreStep("transform", mapTransform)

\* g_oEnv.write_all(fh, asPrefixInclude = ..., asPrefixExclude = ...)
store_write_all ==
    /\ pc = "store"
    /\ iCur <= MaxStoreOps
    /\ iCur' = iCur
    /\ \E f \in WriteFilters :
         last' = [StoreOp("write_all", g_oEnv, <<>>) EXCEPT
                     !.asPrefixInclude = f[1], !.asPrefixExclude = f[2],
                     !.aLines = EnvManager_write_all(g_oEnv, f[1], f[2])]
    /\ UNCHANGED <<pc, host, oArgs, g_oEnv, g_cErrors, g_fContOnErr, aoTools, aoLibs,
                   aoToolsToCheck, aoLibsToCheck, aLog, asWritten, rc>>

NextStore ==
    \/ store_write_all
    \/ store_main
    \/ store_set
    \/ store_unset
    \/ store_append
    \/ store_prependPath
    \/ store_updateFromArgs
    \/ store_transform

\* The store under main's set-up and the calls of its methods.
SpecStore == InitStore /\ [][NextStore]_vars

(***************************************************************************)
(* Properties.                                                             *)
(***************************************************************************)
\* Whether a target is in a declared target set, or the set is the wildcard.
OnTarget(aeTargets, enmTarget) == enmTarget \in aeTargets \/ ANY \in aeTargets

\* The declared target set of the probe of the last call, and the targets
\* it excludes.
LastTargets ==
    IF last.sKind = "lib" THEN LibDef(last.sName).aeTargets ELSE ToolDef(last.sName).aeTargets

LastExcluded == IF last.sKind = "lib" THEN LibDef(last.sName).aeTargetsExcluded ELSE {}

\* A call of performCheck has been made and has returned (or raised).
Called == pc \in {"returned", "raised"}

\* C1: in fail-fast mode, once a performCheck has reported failure no later
\* probe is invoked (the failing call is the last one of the run), no output
\* file is written, and the run ends with a non-zero exit status.
C1_FailFast ==
    ~g_fContOnErr =>
        \A i \in DOMAIN aLog :
            aLog[i].ret # "True" =>
                /\ i = Len(aLog)
                /\ asWritten = {}
                /\ pc \in {"exit", "done", "crashed"}
                /\ (pc \in {"done", "crashed"} => rc = "1")

\* A fail-fast run that a failing probe ended while probes were left.
C1_Witness ==
    /\ ~g_fContOnErr
    /\ pc = "done"
    /\ aLog # <<>>
    /\ aLog[Len(aLog)].ret = "False"
    /\ Len(aLog) < Len(aoToolsToCheck) + Len(aoLibsToCheck)
    /\ asWritten = {}
    /\ rc = "1"

\* C2: in continue-on-error mode, when the run is over every probe that
\* applies to the target has been invoked exactly once, and the error count
\* is at least the number of calls that did not report success.
C2_EveryProbeOnce ==
    g_fContOnErr /\ pc \in {"done", "crashed"} =>
        /\ \A n \in SeqToSet(aoToolsToCheck \o aoLibsToCheck) :
               Cardinality({i \in DOMAIN aLog : aLog[i].sName = n}) = 1
        /\ Cardinality({i \in DOMAIN aLog : aLog[i].ret # "True"}) <= g_cErrors

\* C3: every call that ended Absent counted an error; a run that returns
\* from main exits with 0 exactly when the error count is 0; an exit status
\* of 0 means that no probe is Absent.
C3_ExitStatus ==
    /\ \A i \in DOMAIN aLog : aLog[i].ret = "False" => aLog[i].cErrors >= 1
    /\ pc = "done" => (rc = "0" <=> g_cErrors = 0)
    /\ pc = "crashed" => rc = "1"
    /\ rc = "0" => /\ \A n \in Libs : aoLibs[n].fHave # "False"
                   /\ \A n \in Tools : aoTools[n].fHave # "False"

\* A continue-on-error run that wrote its files and exits non-zero because a
\* library is Absent.
C3_Witness ==
    /\ pc = "done"
    /\ g_fContOnErr
    /\ asWritten # {}
    /\ rc = "1"
    /\ \E n \in Libs : aoLibs[n].fHave = "False"

\* C4: a call of performCheck on a probe whose target set does not hold the
\* target (nor the wildcard) makes no lookup and leaves the result unknown.
C4_OffTargetUntouched ==
    Called /\ ~OnTarget(LastTargets, last.enmTarget) =>
        /\ last.calls = {}
        /\ last.fHave = None

\* C5: in a run, a probe whose target set excludes the target is never
\* invoked, so that it counts no error and ends no loop, and its result
\* stays unknown.
C5_OffTargetSatisfied ==
    pc # "main" =>
        /\ \A n \in Libs :
               ~OnTarget(LibDef(n).aeTargets, KBuildTarget(g_oEnv)) =>
                   /\ \A i \in DOMAIN aLog : aLog[i].sName # n
                   /\ aoLibs[n].fHave = None
        /\ \A n \in Tools :
               ~OnTarget(ToolDef(n).aeTargets, KBuildTarget(g_oEnv)) =>
                   /\ \A i \in DOMAIN aLog : aLog[i].sName # n
                   /\ aoTools[n].fHave = None

\* A run on a host that some library and some tool are off target for,
\* which checked every other probe, wrote its files and exits with 0.
C5_Witness ==
    /\ pc = "done"
    /\ rc = "0"
    /\ asWritten # {}
    /\ aLog # <<>>
    /\ \E n \in Libs : ~OnTarget(LibDef(n).aeTargets, KBuildTarget(g_oEnv))
    /\ \E n \in Tools : ~OnTarget(ToolDef(n).aeTargets, KBuildTarget(g_oEnv))

\* C6: performCheck of a disabled probe leaves the result unknown, makes no
\* lookup, counts no error and returns True.
C6_DisabledSkipped ==
    Called /\ last.fDisabled =>
        /\ last.fHave = None
        /\ last.calls = {}
        /\ last.sHarness = None
        /\ last.cErrors = 0
        /\ g_cErrors = 0
        /\ last.ret = "True"
        /\ ~last.fRaised

\* A call on a disabled tool probe.
C6_Witness ==
    /\ pc = "returned"
    /\ last.sKind = "tool"
    /\ last.fDisabled
    /\ last.ret = "True"

\* C7: a call on an enabled library probe that is on target and has no
\* vendored copy ends Present exactly when the header check, the library
\* check and the harness succeeded, and Absent with an error counted
\* otherwise; the harness is reached only after both checks succeeded.
C7_PresentIff ==
    /\ (pc = "returned" /\ last.sKind = "lib" /\ ~last.fDisabled /\ ~last.fVendored
        /\ OnTarget(LastTargets, last.enmTarget)) =>
           /\ last.fHave = "True" <=>
                  (last.fInc = "True" /\ last.fLib = "True" /\ last.sHarness = "run_ok")
           /\ last.fHave # "True" => (last.fHave = "False" /\ last.cErrors >= 1)
    /\ (Called /\ last.sHarness # None) => (last.fInc = "True" /\ last.fLib = "True")

\* A call that found the header and the library and whose test program ran.
C7_Witness ==
    /\ pc = "returned"
    /\ last.sKind = "lib"
    /\ ~last.fVendored
    /\ last.fLib = "True"
    /\ "getLibSearchPaths" \in last.calls
    /\ last.sHarness = "run_ok"
    /\ last.fHave = "True"

\* C8: a call that finds the headers and no library ends Absent without the
\* harness, and counts exactly one error.
C8_OneError ==
    (pc = "returned" /\ last.sKind = "lib" /\ last.fInc = "True" /\ last.fLib = "False") =>
        /\ last.fHave = "False"
        /\ last.sHarness = None
        /\ last.cErrors = 1

\* The vendored directory a call recorded last, relative to the script.
RecordedVendored ==
    /\ last.asIncPaths # <<>>
    /\ LET p == last.asIncPaths[Len(last.asIncPaths)]
       IN  /\ Len(p) = 3
           /\ SubSeq(p, 1, 2) = <<"src", "libs">>
           /\ p[3] \in {VendoredName(last.sName), "zlib-ng"}

\* What C9 says of a call: Present, the vendored directory recorded, and no
\* path resolution nor harness.
C9_Short ==
    /\ last.fHave = "True"
    /\ last.ret = "True"
    /\ RecordedVendored
    /\ last.calls = {"glob"}
    /\ last.sHarness = None
    /\ last.cErrors = 0

\* C9 as stated: whenever a vendored copy of an enabled library probe
\* exists, with a custom path or without.
C9_VendoredAlways ==
    (Called /\ last.sKind = "lib" /\ ~last.fDisabled /\ last.fVendored) => C9_Short

\* C9, amended: when a vendored copy of an enabled library probe exists, no
\* custom path is given and the target is not one the probe excludes, the
\* call ends Present with the vendored directory recorded and neither path
\* resolution nor the harness is invoked.
C9_VendoredPresent ==
    (Called /\ last.sKind = "lib" /\ ~last.fDisabled /\ last.fVendored
     /\ last.sCustomPath = NoPath /\ last.enmTarget \notin LastExcluded) => C9_Short

\* A call that took the vendored copy.
C9_Witness ==
    /\ pc = "returned"
    /\ last.sKind = "lib"
    /\ last.fVendored
    /\ last.sCustomPath = NoPath
    /\ last.fHave = "True"
    /\ RecordedVendored

\* In a search list, every directory derived from the custom path of the
\* last call comes before every directory below src/libs.
CustomFirst(asPaths) ==
    \A i, j \in DOMAIN asPaths :
        (IsPrefix(last.sCustomPath, asPaths[i])
         /\ IsPrefix(g_sScriptPath \o <<"src", "libs">>, asPaths[j])) => i < j

\* C10: with a custom path the vendored copy is not looked for nor taken,
\* and in the include and the library search list the directories of the
\* custom path come before the in-tree directory.
C10_CustomFirst ==
    (Called /\ last.sKind = "lib" /\ ~last.fDisabled /\ last.sCustomPath # NoPath) =>
        /\ "glob" \notin last.calls
        /\ "getIncSearchPaths" \in last.calls
        /\ ~RecordedVendored
        /\ CustomFirst(last.asIncSearch)
        /\ CustomFirst(last.asLibSearch)

\* A call with a custom path on a host that has a vendored copy, whose
\* library search list holds the custom lib directory and the in-tree one.
C10_Witness ==
    /\ pc = "returned"
    /\ last.sKind = "lib"
    /\ last.sCustomPath # NoPath
    /\ last.fVendored
    /\ \E i, j \in DOMAIN last.asLibSearch :
           /\ last.asLibSearch[i] = last.sCustomPath \o <<"lib">>
           /\ last.asLibSearch[j] = InTreePath(last.sName)

\* The flags of the command line that a transform rule is written for, with
\* the keys the rule is to disable.
FlagRules ==
    { [sDest |-> "config_build_headless",
       asKeys |-> {"VBOX_WITH_QTGUI", "VBOX_WITH_SECURELABEL", "VBOX_WITH_VMSVGA3D",
                   "VBOX_WITH_3D_ACCELERATION", "VBOX_GUI_USE_QGL"}],
      [sDest |-> "config_libs_disable_libvpx",
       asKeys |-> {"VBOX_WITH_LIBVPX", "VBOX_WITH_RECORDING"}],
      [sDest |-> "config_disable_com",
       asKeys |-> {"VBOX_WITH_MAIN", "VBOX_WITH_QTGUI", "VBOX_WITH_VBOXSDL",
                   "VBOX_WITH_DEBUGGER_GUI"}] }

\* C11: when main has set the store up from a command line that holds the
\* flag of a transform rule (--build-headless, --disable-libvpx,
\* --disable-com), the keys that depend on the flag are disabled (stored
\* empty) in the store.
C11_FlagDisables ==
    last.sOp = "main" =>
        \A f \in FlagRules :
            ArgTruthy(oArgs[f.sDest]) =>
                \A sKey \in f.asKeys : EnvManager_get(g_oEnv, sKey) = <<>>

\* The store after the first n rules of a list, rule by rule from the front.
RECURSIVE StoreAfter(_, _, _)
StoreAfter(env, mapTransform, n) ==
    IF n = 0 THEN env
    ELSE Eval(StoreAfter(env, mapTransform, n - 1),
              LAMBDA e : EnvUpdate(e, exprCur(mapTransform[n], e)))

\* The keys a rule writes when it is evaluated against a store.
Writes(rule, env) == {exprCur(rule, env)[j][1] : j \in DOMAIN exprCur(rule, env)}

\* C13: transform leaves the store that applying the rules one after the
\* other in list order leaves, each rule evaluated against the store the
\* rules before it left; a key that several rules write holds the value of
\* the last rule that wrote it.
C13_OrderedLive ==
    (pc = "store" /\ last.sOp = "transform") =>
        LET R == last.mapTransform
            e0 == last.envBefore
        IN  /\ g_oEnv = StoreAfter(e0, R, Len(R))
            /\ \A i \in DOMAIN R :
                 \A j \in DOMAIN exprCur(R[i], StoreAfter(e0, R, i - 1)) :
                   \E pair \in {exprCur(R[i], StoreAfter(e0, R, i - 1))[j]} :
                     (\A i2 \in (i + 1)..Len(R) :
                          pair[1] \notin Writes(R[i2], StoreAfter(e0, R, i2 - 1)))
                     => EnvManager_get(g_oEnv, pair[1]) = pair[2]

\* A transform whose second rule fired on a key the first rule had just
\* written, and overrode the value the first rule gave VBOX_WITH_QTGUI.
C13_Witness ==
    /\ pc = "store"
    /\ last.sOp = "transform"
    /\ Len(last.mapTransform) = 2
    /\ last.mapTransform[1].sIf = "CONFIG_BUILD_HEADLESS"
    /\ last.mapTransform[2].sIf = "VBOX_WITH_HEADLESS"
    /\ Truthy(EnvManager_get(last.envBefore, "CONFIG_BUILD_HEADLESS"))
    /\ ~EnvHas(last.envBefore, "VBOX_WITH_HEADLESS")
    /\ EnvManager_get(g_oEnv, "VBOX_WITH_HEADLESS") = <<"1">>
    /\ EnvManager_get(g_oEnv, "VBOX_WITH_QTGUI") = <<"1">>

\* The keys of a store.
EnvKeys(env) == {env[i].k : i \in DOMAIN env}

\* C14: main's rule list applied to a store gives one result; applied to
\* its own result it changes nothing; and the only keys whose value differs
\* from the input are keys that a rule that fired lists in its dict.
C14_TransformIdempotent ==
    (pc = "store" /\ last.sOp = "transform" /\ last.mapTransform = main_envTransforms) =>
        /\ EnvManager_transform(last.envBefore, main_envTransforms, 1) = g_oEnv
        /\ EnvManager_transform(g_oEnv, main_envTransforms, 1) = g_oEnv
        /\ \A sKey \in EnvKeys(g_oEnv) \cup EnvKeys(last.envBefore) :
               EnvManager_get(g_oEnv, sKey) # EnvManager_get(last.envBefore, sKey) =>
                   \E i \in 1..cTransforms : sKey \in Writes(MainRule(i), last.envBefore)

\* A transform with main's list in which the headless rule fired.
C14_Witness ==
    /\ pc = "store"
    /\ last.sOp = "transform"
    /\ last.mapTransform = main_envTransforms
    /\ Truthy(EnvManager_get(last.envBefore, "CONFIG_BUILD_HEADLESS"))
    /\ ~EnvHas(last.envBefore, "VBOX_WITH_HEADLESS")
    /\ EnvManager_get(g_oEnv, "VBOX_WITH_HEADLESS") = <<"1">>
    /\ EnvManager_get(g_oEnv, "VBOX_WITH_QTGUI") = <<>>

\* C15: every key of the store holds a non-empty string.
C15_NonEmptyValues ==
    pc = "store" => \A i \in DOMAIN g_oEnv : g_oEnv[i].v # <<>>

\* Main has applied the transform rules: it is past its set-up.
Transformed == pc # "main" /\ iCur >= 1

\* C12: no performCheck of a tool or library probe is invoked once main has
\* applied the transform rules.
C12_TransformLast == [][Len(aLog') > Len(aLog) => ~Transformed]_vars

\* C16: every path the include and the library search list of a call
\* returned is a directory of the file system.
C16_OnlyDirs ==
    (Called /\ last.sKind = "lib") => last.asNotDirs = {}

\* C17: when the harness was left, by whichever way, neither the temporary
\* source nor the temporary image is on disk (g_fDebug is off).
C17_TempRemoved ==
    (Called /\ last.sKind = "lib" /\ last.sHarness # None) => last.asTempLeft = {}

\* C18: a call that got to the harness does not raise, whatever the
\* compiler keys of the store and whatever came of the subprocesses; unless
\* the test program ran and exited with 0 the call returns False.
C18_HarnessContained ==
    \A i \in DOMAIN aLog :
        aLog[i].sHarness # None =>
            /\ ~aLog[i].fRaised
            /\ aLog[i].sHarness # "run_ok" => aLog[i].ret = "False"

\* The harness outcomes that are a timeout.
Timeouts == {"compile_timeout", "run_timeout"}

C20_SecondRunSame ==
    pc = "again" =>
        /\ last.fHave = last.fHaveBefore
        /\ last.sVer = last.sVerBefore
        /\ last.asIncPaths = last.asIncPathsBefore
        /\ last.asLibPaths = last.asLibPathsBefore
        /\ last.fStoreKept

\* The names of the probes whose performCheck has been invoked.
Invoked == {aLog[i].sName : i \in DOMAIN aLog}

\* A step leaves what a Present probe has found as it is.
PresentKept ==
    /\ \A n \in Tools :
         aoTools[n].fHave = "True" =>
             /\ aoTools'[n].fHave = "True"
             /\ aoTools'[n].sVer = aoTools[n].sVer
             /\ aoTools'[n].sCmdPath = aoTools[n].sCmdPath
    /\ \A n \in Libs :
         aoLibs[n].fHave = "True" =>
             /\ aoLibs'[n].fHave = "True"
             /\ aoLibs'[n].sVer = aoLibs[n].sVer
             /\ aoLibs'[n].asIncPaths = aoLibs[n].asIncPaths
             /\ aoLibs'[n].asLibPaths = aoLibs[n].asLibPaths

\* C21: the result of a probe is unknown as long as its performCheck has
\* not been invoked, and no step of the run changes result, version or
\* paths of a probe that is Present.
C21_UnknownThenStable ==
    /\ [](/\ \A n \in Tools \ Invoked : aoTools[n].fHave = None
          /\ \A n \in Libs \ Invoked : aoLibs[n].fHave = None)
    /\ [][PresentKept]_vars

\* A run that is over and wrote its files, in which a library was found
\* Present, another probe was checked after it, and a library that was not
\* to be checked is still unknown.
C21_Witness ==
    /\ pc = "done"
    /\ asWritten # {}
    /\ \E i \in DOMAIN aLog :
         /\ i < Len(aLog)
         /\ aLog[i].sName \in Libs
         /\ aoLibs[aLog[i].sName].fHave = "True"
         /\ aoLibs[aLog[i].sName].sVer # None
         /\ aoLibs[aLog[i].sName].asIncPaths # <<>>
    /\ \E n \in Libs \ Invoked : aoLibs[n].fHave = None

\* The lines of the build-variable file, once it is written.
AutoConfigLines ==
    UNION {f.aLines : f \in {w \in asWritten : w.sFile = oArgs["config_file_autoconfig"]}}

\* C22: a library probe whose test program ran and printed S is Present
\* with version S, trimmed; and the build-variable file has the flag of
\* every library probe, which is 1 exactly for the probes that are Present.
C22_PresentWritten ==
    (pc \in {"tools", "libs", "write_autoconfig", "write_env", "exit", "done", "crashed"}) =>
        /\ \A i \in DOMAIN aLog :
             (aLog[i].sHarness = "run_ok" /\ ~aLog[i].fRaised) =>
                 /\ aLog[i].ret = "True"
                 /\ aoLibs[aLog[i].sName].fHave = "True"
                 /\ aoLibs[aLog[i].sName].sVer = TestOutput(aLog[i].sName)
        /\ AutoConfigLines # {} =>
             \A n \in Libs :
                 /\ \E v \in {<<>>, <<"1">>} : <<"VBOX_WITH_" \o sVarBase(n), v>> \in AutoConfigLines
                 /\ <<"VBOX_WITH_" \o sVarBase(n), <<"1">>>> \in AutoConfigLines
                        <=> aoLibs[n].fHave = "True"
                 /\ <<"VBOX_WITH_" \o sVarBase(n), <<>>>> \in AutoConfigLines
                        <=> aoLibs[n].fHave # "True"

\* A run that is over in which the test program of zlib ran and printed
\* its version: VBOX_WITH_ZLIB=1 is written, and the flag of a library that
\* was not checked is written empty.
C22_Witness ==
    /\ pc = "done"
    /\ \E i \in DOMAIN aLog : aLog[i].sName = "zlib" /\ aLog[i].sHarness = "run_ok"
    /\ aoLibs["zlib"].sVer = "1.3.1"
    /\ <<"VBOX_WITH_ZLIB", <<"1">>>> \in AutoConfigLines
    /\ \E n \in Libs : aoLibs[n].fHave = None
                       /\ <<"VBOX_WITH_" \o sVarBase(n), <<>>>> \in AutoConfigLines

\* A call of the harness that got past its assert has returned or raised.
Harnessed == pc = "harness_done" /\ last.sHarness # "raised"

\* A header list with a mark of C++ in the name of one of its headers.
HasCppMark(asHeader) ==
    \E i \in DOMAIN asHeader : \E j \in DOMAIN asCPPHdr : IsSubstring(asCPPHdr[j], asHeader[i])

\* C23: off Windows the harness takes the C++ compiler exactly for a
\* header list with a mark of C++ in a name, and the C compiler else; on
\* Windows it takes the one compiler that is stored.
C23_CompilerByHeaders ==
    Harnessed =>
        IF last.enmBuildTarget = WINDOWS THEN last.sCompiler = last.sCXX
        ELSE last.sCompiler = (IF HasCppMark(last.asIncFiles) THEN last.sCXX ELSE last.sCC)

\* C24: the harness returns success exactly when the compiler and then the
\* test program exited with 0 in their time; the test program is not run
\* after a compiler that did not exit with 0; and with success comes what
\* the test program printed, the white space around it removed.
C24_HarnessResult ==
    (Harnessed /\ ~last.fRaised) =>
        /\ last.fRet <=> (last.ans.compile = "exit0" /\ last.ans.run = "exit0")
        /\ last.ans.compile # "exit0" => last.asProcs = <<"compile">>
        /\ last.ans.compile = "exit0" => last.asProcs = <<"compile", "run">>
        /\ last.fRet => last.sStdOut = decode(last.asText)

\* A call that returned success with the version the test program printed
\* between white space.
C24_Witness ==
    /\ Harnessed
    /\ last.fRet
    /\ last.ans.out = <<"\n", " ", "1.3.1", "\r\n">>
    /\ last.sStdOut = "1.3.1"
    /\ last.asProcs = <<"compile", "run">>

\* The place of a name in a list that holds it.
PlaceIn(aoList, sName) == CHOOSE i \in DOMAIN aoList : aoList[i] = sName

\* C25: the probes are invoked in the order of the two lists, the tool
\* probes in the order of their declaration and before every library
\* probe, the library probes by ascending name, and none twice.
C25_FixedOrder ==
    (pc \in {"tools", "libs", "write_autoconfig", "write_env", "exit", "done", "crashed"}) =>
        /\ IsPrefix([i \in DOMAIN aLog |-> aLog[i].sName], aoToolsToCheck \o aoLibsToCheck)
        /\ \A i, j \in DOMAIN aoToolsToCheck :
               i < j => PlaceIn(g_aoTools, aoToolsToCheck[i]) < PlaceIn(g_aoTools, aoToolsToCheck[j])
        /\ \A i, j \in DOMAIN aoLibsToCheck :
               i < j => NameRank(aoLibsToCheck[i]) < NameRank(aoLibsToCheck[j])
        /\ \A i, j \in DOMAIN aLog : aLog[i].sName = aLog[j].sName => i = j

\* A run that is over in which two tool probes and then the libraries xmu
\* and zlib, declared in the other order, were checked.
C25_Witness ==
    /\ pc = "done"
    /\ Len(aoToolsToCheck) >= 2
    /\ Len(aLog) = Len(aoToolsToCheck) + Len(aoLibsToCheck)
    /\ \E i \in DOMAIN aLog : aLog[i].sName = "xmu" /\ i < Len(aLog) /\ aLog[i + 1].sName = "zlib"

\* The probing phase is over and was not broken off: main is at the
\* writers or past them, and either it runs in continue-on-error mode or
\* every probe of the two lists was checked and none failed.
ProbedToTheEnd ==
    /\ pc \in {"write_autoconfig", "write_env", "exit", "done"}
    /\ \/ g_fContOnErr
       \/ /\ Len(aLog) = Len(aoToolsToCheck) + Len(aoLibsToCheck)
          /\ \A i \in DOMAIN aLog : aLog[i].ret = "True"

\* The status main prints for a probe: the first word of its status string.
StatusOfTool(sName) == Head(ToolCheck_getStatusString(aoTools[sName]))

StatusOfLib(sName) == Head(LibraryCheck_getStatusString(aoLibs[sName]))

LastPlaceIn(asPaths, sPath) ==
    LET ai == {i \in DOMAIN asPaths : asPaths[i] = sPath}
    IN  IF ai = {} THEN 0 ELSE CHOOSE i \in ai : \A j \in ai : j <= i

\* The system locations of the include search a host of the model may
\* hold, from the first looked at to the last; the prefix of a Darwin host
\* is the last.
asIncPriority ==
    << <<"/", "usr", "include">>, <<"/", "usr", "local", "include">>,
       <<"/", "opt", "include">>, <<"/", "opt", "local", "include">>,
       <<"/", "opt", "homebrew", "include">> >>

\* The system locations of the library search a host of the model may hold.
asLibPriority ==
    << <<"/", "usr", "lib">>, <<"/", "usr", "local", "lib">>,
       <<"/", "opt", "lib">>, <<"/", "opt", "local", "lib">> >>

\* A search list for a custom path: the walked directories are in it and
\* before the entry of the custom path, every path outside the custom path
\* is behind both, and the system locations are in priority order.
WalkedCustomSystem(asSearch, sCustomPath, sEntry, asWalked, asPriority) ==
    LET iEntry == LastPlaceIn(asSearch, sEntry)
        aiSystem == {i \in DOMAIN asSearch : asSearch[i] \in SeqToSet(asPriority)}
    IN  /\ \A d \in asWalked :
             \E i \in DOMAIN asSearch : asSearch[i] = d /\ (iEntry # 0 => i < iEntry)
        /\ \A i \in DOMAIN asSearch :
             ~IsPrefix(sCustomPath, asSearch[i]) =>
                 /\ i > iEntry
                 /\ \A j \in DOMAIN asSearch : asSearch[j] \in asWalked => j < i
        /\ \A i, j \in aiSystem :
             i < j => LastPlaceIn(asPriority, asSearch[i]) < LastPlaceIn(asPriority, asSearch[j])

\* C27: for a probe with a custom path, the directories the walk of the
\* custom path found with a declared file are in the returned list before
\* the entry of the custom path, that entry is before every in-tree and
\* system location, and the system locations that exist are in their
\* priority order, the Darwin prefix behind the standard ones; a search
\* that raised returned no list.
C27_CustomThenSystem ==
    (Called /\ last.sKind = "lib" /\ last.sCustomPath # NoPath) =>
        /\ ("getIncSearchPaths" \in last.calls /\ last.fInc # None) =>
               WalkedCustomSystem(last.asIncSearch, last.sCustomPath, last.sCustomPath,
                           last.asWalkedInc, asIncPriority)
        /\ ("getLibSearchPaths" \in last.calls /\ last.fLib # None) =>
               WalkedCustomSystem(last.asLibSearch, last.sCustomPath, last.sCustomPath \o <<"lib">>,
                           last.asWalkedLib, asLibPriority)

\* A call on a Darwin host for a probe with a custom path below which the
\* walk found the header, the host holding two standard prefixes and the
\* Darwin one.
C27_Witness ==
    /\ Called
    /\ last.sKind = "lib"
    /\ last.sCustomPath # NoPath
    /\ last.enmTarget = DARWIN
    /\ last.sCustomPath \o <<"include">> \in last.asWalkedInc
    /\ last.sCustomPath \in SeqToSet(last.asIncSearch)
    /\ {<<"/", "usr", "include">>, <<"/", "usr", "local", "include">>,
        <<"/", "opt", "homebrew", "include">>} \subseteq SeqToSet(last.asIncSearch)

\* In a search list of the last call, no path outside the source tree and
\* outside the custom path is behind the in-tree directory of the probe.
NothingBehindInTree(asSearch) ==
    \A i, j \in DOMAIN asSearch :
        (asSearch[i] = InTreePath(last.sName) /\ i < j) =>
            \/ IsPrefix(g_sScriptPath, asSearch[j])
            \/ (last.sCustomPath # NoPath /\ IsPrefix(last.sCustomPath, asSearch[j]))

\* C28: when the in-tree directory named after the probe exists, the
\* include and the library search list hold no system location behind it.
C28_InTreeShortCircuits ==
    (Called /\ last.sKind = "lib") =>
        /\ NothingBehindInTree(last.asIncSearch)
        /\ NothingBehindInTree(last.asLibSearch)

\* C29: checkLib of a probe with several declared libraries succeeds only
\* when every one of them is matched by a file of some search path.
C29_EveryLibraryMatched ==
    (pc = "checked" /\ last.fLib = "True") =>
        SeqToSet(LibDef(last.sName).asLibFiles) \subseteq last.asLibsMatched

\* The first path of a search list that is one of the directories, NoPath
\* when none is.
FirstOf(asSearch, asDirs) ==
    LET ai == {i \in DOMAIN asSearch : asSearch[i] \in asDirs}
    IN  IF ai = {} THEN NoPath ELSE asSearch[CHOOSE i \in ai : \A j \in ai : i <= j]

\* For the headers of the last call in their order, the first search path
\* that holds the header, the headers no search path holds left out.
FirstOfEachHeader ==
    SelectSeq([i \in DOMAIN last.asHeaderDirs |-> FirstOf(last.asIncSearch, last.asHeaderDirs[i])],
              LAMBDA sPath : sPath # NoPath)

\* checkInc has searched in the last call and returned.
IncChecked == Called /\ last.sKind = "lib" /\ last.asHeaderDirs # <<>> /\ last.fInc # None

\* C30: checkInc succeeds exactly when every declared header and every
\* alternate header is in some include search path; the include paths of
\* the probe get, for every header found and in header order, the first
\* search path that holds it and nothing else, whether the check succeeds
\* or fails.
C30_EveryHeaderFirstPath ==
    IncChecked =>
        /\ last.fInc = "True" <=>
               \A i \in DOMAIN last.asHeaderDirs :
                   SeqToSet(last.asIncSearch) \cap last.asHeaderDirs[i] # {}
        /\ last.asIncPaths = last.asIncPathsBefore \o FirstOfEachHeader

\* A call for libstdc++ whose checkInc failed on the first header and
\* found a later one, the path of which is kept.
C30_Witness ==
    /\ IncChecked
    /\ last.sName = "libstdc++"
    /\ last.fInc = "False"
    /\ SeqToSet(last.asIncSearch) \cap last.asHeaderDirs[1] = {}
    /\ Len(last.asIncPaths) = Len(last.asIncPathsBefore) + 1

\* C31: on a target other than Windows, a search for include or library
\* paths that a call began returned a list, whatever the machine type of
\* the host: it did not raise.
C31_PathsForEveryMachine ==
    (Called /\ last.sKind = "lib" /\ last.enmTarget # WINDOWS) =>
        /\ "getIncSearchPaths" \in last.calls => last.fInc # None
        /\ "getLibSearchPaths" \in last.calls => last.fLib # None

\* The commands of the tool probe of the last call that the host answered
\* with a command path.
ResolvedCmds ==
    {ToolDef(last.sName).asCmd[i] :
        i \in {k \in DOMAIN last.aWhich : last.aWhich[k].kind \in {"version", "noversion"}}}

PythonKeys == {"VBOX_WITH_PYTHON", "VBOX_PATH_PYTHON_INC", "VBOX_LIB_PYTHON"}

\* C33: the probe python_c_api ends Present, and the Python keys are in
\* the store, only when the harness reported success; when the harness
\* reported failure the probe ends Absent and the keys are not set.
C33_PythonByHarness ==
    (pc = "checked" /\ last.sKind = "tool" /\ last.sName = "python_c_api" /\ ~last.fRaised) =>
        /\ (last.fHave = "True" \/ \E k \in PythonKeys : EnvHas(g_oEnv, k)) =>
               last.sHarness = "run_ok"
        /\ last.sHarness \in HarnessKinds \ {"run_ok"} =>
               /\ last.fHave = "False"
               /\ \A k \in PythonKeys : ~EnvHas(g_oEnv, k)

\* Whether write_all is to write the i-th key of a store: its value is not
\* empty, no excluded prefix begins its name, and when prefixes to include
\* are given one of them does.
ToBeWritten(env, i, asPrefixInclude, asPrefixExclude) ==
    /\ env[i].v # <<>>
    /\ env[i].v # EnvNone
    /\ ~\E n \in DOMAIN asPrefixExclude : startswith(env[i].k, asPrefixExclude[n])
    /\ asPrefixInclude # <<>> =>
           \E n \in DOMAIN asPrefixInclude : startswith(env[i].k, asPrefixInclude[n])

C35_TempDirRemoved ==
    Harnessed => ~last.fTempDirLeft

\* The value of a key after a call begins with every path of the call, the
\* path handed over last in front, and ends with the value the key had.
PathsPrepended(sKey, asPaths) ==
    LET sNow == EnvManager_get(g_oEnv, sKey)
        sWas == EnvManager_get(last.envBefore, sKey)
    IN  IF asPaths = <<>> THEN sNow = sWas
        ELSE /\ IsPrefix(asPaths[Len(asPaths)], sNow)
             /\ \A i \in DOMAIN asPaths :
                    \E n \in 0..Len(sNow) : IsPrefix(asPaths[i], SubSeq(sNow, n + 1, Len(sNow)))
             /\ EnvHas(last.envBefore, sKey) => IsSuffix(sWas, sNow)

\* C36: a call of the harness for another target than Windows leaves the
\* store as it was; a call for Windows that got past its assert has put
\* its include paths in front of INCLUDE and its library paths in front of
\* LIB in g_oEnv itself, where the next call finds them, and has left
\* every other key as it was.
C36_StoreKeptOrPrepended ==
    pc = "harness_done" =>
        /\ last.enmBuildTarget # WINDOWS => g_oEnv = last.envBefore
        /\ (last.enmBuildTarget = WINDOWS /\ last.sHarness # "raised") =>
               /\ PathsPrepended("INCLUDE", last.asIncPaths)
               /\ PathsPrepended("LIB", last.asLibPaths)
               /\ \A i \in DOMAIN last.envBefore :
                      last.envBefore[i].k \notin {"INCLUDE", "LIB"} =>
                          EnvManager_get(g_oEnv, last.envBefore[i].k) = last.envBefore[i].v
               /\ \A i \in DOMAIN g_oEnv :
                      g_oEnv[i].k \in {"INCLUDE", "LIB"} \/ EnvHas(last.envBefore, g_oEnv[i].k)

\* A call for Windows with two include paths and a library path whose
\* compiler failed: INCLUDE and LIB of g_oEnv hold the paths.
C36_Witness ==
    /\ pc = "harness_done"
    /\ last.enmBuildTarget = WINDOWS
    /\ last.sHarness = "compile_fail"
    /\ Len(last.asIncPaths) = 2
    /\ ~EnvHas(last.envBefore, "INCLUDE")
    /\ EnvManager_get(g_oEnv, "INCLUDE")
           = <<"C:", "sdk", "include", ";", "C:", "vcpkg", "include">>
    /\ EnvManager_get(g_oEnv, "LIB") = <<"C:", "vcpkg", "lib">>

\* The steps of a fail-fast run keep to the error counter: the library
\* loop is entered, and the writers are reached, only with no error
\* counted; a library probe is invoked only inside the library loop and a
\* file is written only by the writers.
FailFastGated ==
    /\ (~g_fContOnErr /\ pc # "libs" /\ pc' = "libs") => g_cErrors' = 0
    /\ (~g_fContOnErr /\ pc # "write_autoconfig" /\ pc' = "write_autoconfig") => g_cErrors' = 0
    /\ (Len(aLog') > Len(aLog) /\ aLog'[Len(aLog')].sName \in Libs) => pc = "libs"
    /\ asWritten' # asWritten => pc \in {"write_autoconfig", "write_env"}

\* The steps of a run in continue-on-error mode that leave the tool checks
\* enter the library loop when there is a library to check, and those that
\* leave the library loop, or the tool checks with no library to check,
\* reach the writers.
ContinueUngated ==
    g_fContOnErr =>
        /\ (pc \in {"ostools", "tools"} /\ pc' \notin {"ostools", "tools"}) =>
               pc' = (IF aoLibsToCheck # <<>> THEN "libs" ELSE "write_autoconfig")
        /\ (pc = "libs" /\ pc' # "libs") => pc' = "write_autoconfig"

\* C37: in fail-fast mode the library probes are run only when no error
\* is counted after the OS tool checks and the tool probes, and the output
\* files are written only when no error is counted after the last probe,
\* whichever check counted it; in continue-on-error mode the library
\* probes and the writers are run in every run.
C37_GatedByErrorCounter == [][FailFastGated /\ ContinueUngated]_vars

====
